---- MODULE Spec2Model ----
(***************************************************************************)
(* A model of axopy's timing primitives (axopy/timing.py: Counter,         *)
(* StepCounter and Timer), of its threaded acquisition stream              *)
(* (axopy/daq.py: DaqStream, _Sleeper) and of its task design containers   *)
(* (axopy/design.py: Design, Block, Trial, Array, BufferedArray), written  *)
(* from the Python source.                                                 *)
(*                                                                         *)
(* There is one specification for each object.  SpecTiming drives one      *)
(* counter object, a Counter or a StepCounter, through increment(),        *)
(* reset() and add_step(); SpecTwin drives a StepCounter and a Counter     *)
(* with the same calls; SpecTimer drives a Timer on a clock of ticks.      *)
(* SpecStream interleaves the worker thread of a DaqStream (run(),         *)
(* statement by statement) with the consumer context that calls start(),   *)
(* stop() and the accessors; SpecSleeper drives a _Sleeper.  SpecBuffer    *)
(* and SpecArray drive a BufferedArray and an Array; SpecBlock builds a    *)
(* Design of blocks and trials, and SpecShuffle shuffles two blocks built  *)
(* alike.                                                                  *)
(***************************************************************************)
EXTENDS Integers, Sequences, FiniteSets, TLC

VARIABLES
    \* ---- timing.py: one Counter or StepCounter object
    kind,               \* the object's class: "Counter" or "StepCounter"
    max_count,          \* self.max_count
    reset_on_timeout,   \* self.reset_on_timeout
    count,              \* self.count
    step_count,         \* self.step_count: checkpoint of step0, step1, ...
    step_inc,           \* self.step_inc
    emitted,            \* events emitted by the last call, in emission order
    lastOp,             \* the last method called on the object
    nInc,               \* increment() calls since construction or the last reset() call
    nTimeout,           \* timeout events emitted since construction or the last reset() call
    calls,              \* increment() and reset() calls made so far
    nRefused,           \* add_step() calls that found no emitter left
    \* ---- daq.py: one DaqStream, its worker thread and its caller
    running,            \* self._running
    wpc,                \* the worker's position in run()
    d,                  \* the worker's local d: the chunk of the last read
    log,                \* what this run did to the device and emitted, in order
    reads,              \* device reads that returned a chunk in this run
    waiting,            \* the caller is blocked in stop(wait=True)
    stopRequested,      \* stop() has set _running = False since start() returned
    stopWaitReturned,   \* a stop(wait=True) has returned since start() returned
    readsAfterStop,     \* reads that returned a chunk after stop() set the flag
    dAfterStop,         \* the read that produced d returned after stop() set the flag
    strayEmitted,       \* an updated event carried a chunk read after stop() set the flag
    runs,               \* start() calls that spawned a worker run
    \* ---- design.py: one BufferedArray, seen along its insert axis
    capacity,           \* self.buffer_dims[self.insert_axis]
    buffer,             \* self.buffer: one sample per position of the insert axis
    pos,                \* self.pos
    overflow,           \* self.overflow
    data,               \* self.data: the empty array, or a view of the buffer's first len positions
    bufOp,              \* the last method called on the array
    lastChunk,          \* the chunk given to the last insert()
    offered,            \* samples given to insert() since construction or the last clear()
    accepted,           \* samples insert() wrote since construction or the last clear()
    serial,             \* samples given to insert() so far: sample k carries the value k
    recovered,          \* clear() has been called on an overflowed array
    bufOps,             \* calls made on the array so far
    \* ---- daq.py: one _Sleeper and the clock its caller reads
    read_time,          \* self.read_time, in clock ticks
    last_read_time,     \* self.last_read_time, None as -1
    now,                \* time.time()
    blocked,            \* the length of the last call's time.sleep(), 0 when it did not block
    callStart,          \* t of the last sleep() call, -1 when none
    callReturn,         \* the time the last sleep() call returned, -1 when none
    fresh,              \* no sleep() call since construction or the last reset()
    wasFresh,           \* the last sleep() call was the first since construction or reset()
    prevStart,          \* t of the sleep() call before the last one, -1 when none
    prevReturn,         \* the time the sleep() call before the last one returned, -1 when none
    prevLate,           \* the sleep() call before the last one arrived late and did not block
    late,               \* the last sleep() call arrived late and did not block
    \* ---- design.py: one Array
    array_data,         \* self.data: None, or the array held
    stack_axis,         \* self.stack_axis
    initial_data,       \* the data the array was constructed with, None after clear()
    stacked,            \* the chunks stack() took since construction or the last clear()
    arrOp,              \* the last method called on the array
    arrSerial,          \* values handed to the array so far: value k is the number k
    arrOps,             \* calls made on the array so far
    offeredChunk,       \* the array given to the last stack(), None before the first
    \* ---- design.py: one Design, its blocks and trials, and the module random
    design,             \* the Design: its blocks, each with its index and its trials
    dicts,              \* the dictionary objects: the attrs of the trials
    rng,                \* the state of random's generator
    lastAdd,            \* the last add_trial: its block, the attributes given, the trial returned
    shuffleLog,         \* the shuffle calls made so far, in order
    everPlain,          \* the blocks that had a shuffle(reset_index=False)
    blockOp,            \* the last method called on the design or a block
    blockOps,           \* calls made on the design and its blocks so far
    returnedBlock,      \* the position in the design of the block the last add_block returned, 0 before
    \* ---- timing.py: one Timer and the time that passes
    duration,           \* self.duration, in clock ticks
    qActive,            \* self._qtimer.isActive()
    remaining,          \* ticks until the armed QTimer fires
    fired,              \* timeout events emitted since the last start()
    elapsed,            \* ticks passed since the last start()
    stoppedEarly,       \* stop() was called since the last start(), before its duration had passed
    starts,             \* start() calls made so far
    totalFired,         \* timeout events emitted so far
    timerSteps,         \* calls and ticks so far
    \* ---- timing.py: a second counter, a Counter, next to a StepCounter
    twinCount,          \* its self.count
    twinEmitted,        \* the events its last call emitted
    \* ---- daq.py: the accessors of the DaqStream
    devAttrs,           \* the names, among those the accessors read, the device has
    lastQuery,          \* the accessor last called, "none" before the first call
    queryResult,        \* what that call returned, or the error it raised
    \* ---- daq.py: one Keyboard, its read() in the worker and its eventFilter
    kbData,             \* self._data: for each watched key, 0 or 1
    kbPc,               \* the position of the worker in read()
    kbOut,              \* read()'s local out
    lastRead,           \* what the last read() returned
    presses,            \* the key presses eventFilter recorded, in order
    filtered,           \* what the last eventFilter call returned
    kbSteps             \* steps of read() and eventFilter calls so far

timingVars == <<kind, max_count, reset_on_timeout, count, step_count, step_inc,
                emitted, lastOp, nInc, nTimeout, calls, nRefused>>

streamVars == <<running, wpc, d, log, reads, waiting, stopRequested,
                stopWaitReturned, readsAfterStop, dAfterStop, strayEmitted, runs>>

bufferVars == <<capacity, buffer, pos, overflow, data, bufOp, lastChunk, offered,
                accepted, serial, recovered, bufOps>>

sleeperVars == <<read_time, last_read_time, now, blocked, callStart, callReturn,
                 fresh, wasFresh, prevStart, prevReturn, prevLate, late>>

arrayVars == <<array_data, stack_axis, initial_data, stacked, arrOp, arrSerial, arrOps,
               offeredChunk>>

blockVars == <<design, dicts, rng, lastAdd, shuffleLog, everPlain, blockOp, blockOps,
               returnedBlock>>

timerVars == <<duration, qActive, remaining, fired, elapsed, stoppedEarly, starts,
               totalFired, timerSteps>>

twinVars == <<twinCount, twinEmitted>>

accessorVars == <<devAttrs, lastQuery, queryResult>>

keyboardVars == <<kbData, kbPc, kbOut, lastRead, presses, filtered, kbSteps>>

vars == <<timingVars, streamVars, bufferVars, sleeperVars, arrayVars, blockVars,
          timerVars, twinVars, accessorVars, keyboardVars>>

\* What each specification leaves alone.
notTimingVars == <<streamVars, bufferVars, sleeperVars, arrayVars, blockVars,
    timerVars,
    twinVars, accessorVars, keyboardVars>>
notStreamVars == <<timingVars, bufferVars, sleeperVars, arrayVars, blockVars,
    timerVars,
    twinVars, accessorVars, keyboardVars>>
notBufferVars == <<timingVars, streamVars, sleeperVars, arrayVars, blockVars,
    timerVars,
    twinVars, accessorVars, keyboardVars>>
notSleeperVars == <<timingVars, streamVars, bufferVars, arrayVars, blockVars,
    timerVars,
    twinVars, accessorVars, keyboardVars>>
notTwinVars == <<streamVars, bufferVars, sleeperVars, arrayVars, blockVars, timerVars,
    accessorVars, keyboardVars>>
notAccessorVars == <<timingVars, streamVars, bufferVars, sleeperVars, arrayVars,
    blockVars, timerVars, twinVars, keyboardVars>>
notTimerVars == <<timingVars, streamVars, bufferVars, sleeperVars, arrayVars, blockVars,
    twinVars, accessorVars, keyboardVars>>
notBlockVars == <<timingVars, streamVars, bufferVars, sleeperVars, arrayVars,
    timerVars,
    twinVars, accessorVars, keyboardVars>>
notArrayVars == <<timingVars, streamVars, bufferVars, sleeperVars, blockVars,
    timerVars,
    twinVars, accessorVars, keyboardVars>>
notKeyboardVars == <<timingVars, streamVars, bufferVars, sleeperVars, arrayVars,
    blockVars, timerVars, twinVars, accessorVars>>

(***************************************************************************)
(* Bounds of the model.                                                    *)
(***************************************************************************)
MaxCount == 5       \* max_count ranges over 1..MaxCount
MaxSteps == 3       \* add_step calls made on one StepCounter
MaxRefused == 1     \* add_step calls made after the last emitter is taken
MaxCalls == 5       \* increment() and reset() calls made on one object
MaxReads == 3       \* device reads that return a chunk in one worker run
MaxRuns  == 2       \* worker runs spawned by start()
MaxCap   == 4       \* buffer capacities range over 1..MaxCap
MaxChunk == 3       \* extents of 2-dimensional chunks range over 0..MaxChunk
MaxBufOps == 6      \* calls made on one BufferedArray
MaxInterval == 2    \* read_time ranges over 1..MaxInterval clock ticks
MaxTime  == 7       \* the clock runs from 0 to MaxTime
MaxLag   == 1       \* ticks by which time.sleep() may return late
MaxRows  == 2       \* rows of a two-dimensional chunk given to Array.stack
MaxCols  == 2       \* columns of a chunk given to Array.stack
MaxArrOps == 4      \* calls made on the Array
MaxBlocks == 2      \* blocks of the Design
MaxTrials == 3      \* trials of a Block
MaxBlockOps == 4    \* calls made on the Design and its blocks
MaxShuffles == 2    \* shuffle calls among them
MaxSeed  == 1       \* seeds range over 0..MaxSeed
RngPeriod == 5      \* states of the random generator
MaxDuration == 2    \* the Timer's duration ranges over 1..MaxDuration ticks
MaxTimerSteps == 7  \* calls made on the Timer and ticks
MaxKeys == 2        \* keys the Keyboard watches
MaxKbSteps == 6     \* steps of read() and eventFilter calls on the Keyboard

\* StepCounter.step_max: the number of step emitters of the class.
step_max == 10

\* The checkpoints given to add_step: 0 is the default, MaxCount + 1 is beyond
\* every max_count.
Checkpoints == 0..(MaxCount + 1)

(***************************************************************************)
(* timing.py                                                               *)
(***************************************************************************)

\* One emitted event, with the count a handler reading the counter observes.
Event(sig, id, seen) == [sig |-> sig, id |-> id, seen |-> seen]

\* Counter.reset: the count after reset().
ResetCount == 0

\* Counter.progress: self.count / self.max_count, a true division, kept as
\* the fraction num / den (max_count, the denominator, is at least 1).
progress(c, m) == [num |-> c, den |-> m]

\* The first statement of increment(): self.count += 1.
BumpedCount(c) == c + 1

\* A slip in the comparison: the timeout is taken one count late.
AtMaxCount_OneLate(c, m) == c = m + 1

\* if self.count == self.max_count
AtMaxCount(c, m) == c = m

\* A slip in the timeout branch: reset() is never called.
CountAfterTimeoutBranch_NoReset(c, rot) == c

\* The count left by the timeout branch: reset() runs when reset_on_timeout.
CountAfterTimeoutBranch(c, rot) == IF rot THEN ResetCount ELSE c

\* A slip in the order of the timeout branch: timeout.emit() before reset(),
\* so the handler observes the count that reached max_count.
TimeoutEvents_EmitFirst(c, m, rot) ==
    IF AtMaxCount(c, m) THEN <<[sig |-> "timeout", id |-> 0, seen |-> c]>> ELSE <<>>

\* The timeout branch of increment(): the optional reset() comes first, then
\* timeout.emit(), so the handler observes the count the branch left.
TimeoutEvents(c, m, rot) ==
    IF AtMaxCount(c, m)
    THEN <<Event("timeout", 0, CountAfterTimeoutBranch(c, rot))>>
    ELSE <<>>

\* The count increment() leaves, given the count after self.count += 1.
CountAfterIncrement(c, m, rot) ==
    IF AtMaxCount(c, m) THEN CountAfterTimeoutBranch(c, rot) ELSE c

\* The lookup the source keeps in a comment, self.step_count.index(self.count):
\* only the first step registered at the count.
StepIndex_FirstOnly(sc, c) ==
    IF \E i \in 1..Len(sc) : sc[i] = c
    THEN <<CHOOSE i \in 1..Len(sc) : sc[i] = c /\ \A j \in 1..(i - 1) : sc[j] # c>>
    ELSE <<>>

\* _index = [i for i, x in enumerate(self.step_count) if x == self.count],
\* as 1-based positions in ascending order.
StepIndex(sc, c) ==
    SelectSeq([i \in 1..Len(sc) |-> i], LAMBDA i : sc[i] = c)

\* A slip in the order of increment(): the steps are emitted after the timeout
\* branch has run, so that their handlers observe the count it left.
StepEvents_AfterTimeoutBranch(sc, c) ==
    [k \in 1..Len(StepIndex(sc, c)) |->
        Event("step", StepIndex(sc, c)[k] - 1,
              CountAfterIncrement(c, max_count, reset_on_timeout))]

\* for i in _index: getattr(self, 'step' + str(i)).emit(); the emitters are
\* named step0, step1, ..., and the count is not yet reset when they fire.
StepEvents(sc, c) ==
    [k \in 1..Len(StepIndex(sc, c)) |-> Event("step", StepIndex(sc, c)[k] - 1, c)]

IsTimeout(e) == e.sig = "timeout"
IsStep(e) == e.sig = "step"

CounterInit ==
    /\ kind \in {"Counter", "StepCounter"}
    /\ max_count \in 1..MaxCount
    /\ reset_on_timeout \in BOOLEAN
    /\ count = 0
    /\ step_count = <<>>
    /\ step_inc = 0
    /\ emitted = <<>>
    /\ lastOp = "init"
    /\ nInc = 0
    /\ nTimeout = 0
    /\ calls = 0
    /\ nRefused = 0

\* Counter.increment
CounterIncrement ==
    /\ kind = "Counter"
    /\ calls < MaxCalls
    /\ LET c == BumpedCount(count) IN
        /\ count' = CountAfterIncrement(c, max_count, reset_on_timeout)
        /\ emitted' = TimeoutEvents(c, max_count, reset_on_timeout)
        /\ nTimeout' = nTimeout + Len(SelectSeq(emitted', IsTimeout))
    /\ nInc' = nInc + 1
    /\ calls' = calls + 1
    /\ lastOp' = "increment"
    /\ UNCHANGED <<kind, max_count, reset_on_timeout, step_count, step_inc, nRefused>>

\* A slip in StepCounter.increment: the steps are tested after the timeout
\* branch, against the count it left.
StepCounterIncrement_StepsAfterBranch ==
    /\ kind = "StepCounter"
    /\ calls < MaxCalls
    /\ LET c == BumpedCount(count) IN
        /\ count' = CountAfterIncrement(c, max_count, reset_on_timeout)
        /\ emitted' = TimeoutEvents(c, max_count, reset_on_timeout)
                        \o StepEvents(step_count, count')
        /\ nTimeout' = nTimeout + Len(SelectSeq(emitted', IsTimeout))
    /\ nInc' = nInc + 1
    /\ calls' = calls + 1
    /\ lastOp' = "increment"
    /\ UNCHANGED <<kind, max_count, reset_on_timeout, step_count, step_inc, nRefused>>

\* A slip in StepCounter.increment: the timeout test is an elif of the step
\* test, and is skipped on a call that fired a step.
StepCounterIncrement_ElifTimeout ==
    /\ kind = "StepCounter"
    /\ calls < MaxCalls
    /\ LET c == BumpedCount(count)
           stepped == StepEvents(step_count, c) # <<>>
       IN
        /\ count' = IF stepped THEN c
                    ELSE CountAfterIncrement(c, max_count, reset_on_timeout)
        /\ emitted' = IF stepped THEN StepEvents(step_count, c)
                      ELSE TimeoutEvents(c, max_count, reset_on_timeout)
        /\ nTimeout' = nTimeout + Len(SelectSeq(emitted', IsTimeout))
    /\ nInc' = nInc + 1
    /\ calls' = calls + 1
    /\ lastOp' = "increment"
    /\ UNCHANGED <<kind, max_count, reset_on_timeout, step_count, step_inc, nRefused>>

\* StepCounter.increment
StepCounterIncrement ==
    /\ kind = "StepCounter"
    /\ calls < MaxCalls
    /\ LET c == BumpedCount(count) IN
        /\ count' = CountAfterIncrement(c, max_count, reset_on_timeout)
        /\ emitted' = StepEvents(step_count, c)
                        \o TimeoutEvents(c, max_count, reset_on_timeout)
        /\ nTimeout' = nTimeout + Len(SelectSeq(emitted', IsTimeout))
    /\ nInc' = nInc + 1
    /\ calls' = calls + 1
    /\ lastOp' = "increment"
    /\ UNCHANGED <<kind, max_count, reset_on_timeout, step_count, step_inc, nRefused>>

\* A slip in reset(): the registered steps are dropped with the count.
Reset_DropsSteps ==
    /\ calls < MaxCalls
    /\ count' = ResetCount
    /\ emitted' = <<>>
    /\ nInc' = 0
    /\ nTimeout' = 0
    /\ calls' = calls + 1
    /\ lastOp' = "reset"
    /\ step_count' = <<>>
    /\ step_inc' = 0
    /\ UNCHANGED <<kind, max_count, reset_on_timeout, nRefused>>

\* Counter.reset, inherited by StepCounter, called by the owner.
Reset ==
    /\ calls < MaxCalls
    /\ count' = ResetCount
    /\ emitted' = <<>>
    /\ nInc' = 0
    /\ nTimeout' = 0
    /\ calls' = calls + 1
    /\ lastOp' = "reset"
    /\ UNCHANGED <<kind, max_count, reset_on_timeout, step_count, step_inc, nRefused>>

\* StepCounter.add_step(count=cp, event): the handler is connected to the
\* emitter stepN, N = step_inc, when an emitter is left; with none left the
\* call does nothing.
add_step_OneMore(cp) ==
    IF step_inc <= step_max
    THEN /\ step_count' = Append(step_count, cp)
         /\ step_inc' = step_inc + 1
         /\ UNCHANGED nRefused
    ELSE /\ nRefused' = nRefused + 1
         /\ UNCHANGED <<step_count, step_inc>>

add_step(cp) ==
    IF step_inc < step_max
    THEN /\ step_count' = Append(step_count, cp)
         /\ step_inc' = step_inc + 1
         /\ UNCHANGED nRefused
    ELSE /\ nRefused' = nRefused + 1
         /\ UNCHANGED <<step_count, step_inc>>

\* add_step called by an owner that registers at most MaxSteps steps, at any
\* checkpoint.
AddStep ==
    /\ kind = "StepCounter"
    /\ Len(step_count) < MaxSteps
    /\ \E cp \in Checkpoints : add_step(cp)
    /\ emitted' = <<>>
    /\ lastOp' = "add_step"
    /\ UNCHANGED <<kind, max_count, reset_on_timeout, count, nInc, nTimeout, calls>>

\* The checkpoints of an owner that keeps registering steps until the
\* emitters run out.
FewCheckpoints == {1, 2}

\* add_step called by an owner that goes on after the last emitter is taken.
AddStepToTheLimit ==
    /\ kind = "StepCounter"
    /\ nRefused < MaxRefused
    /\ \E cp \in FewCheckpoints : add_step(cp)
    /\ emitted' = <<>>
    /\ lastOp' = "add_step"
    /\ UNCHANGED <<kind, max_count, reset_on_timeout, count, nInc, nTimeout, calls>>

(***************************************************************************)
(* design.py: BufferedArray.  The array is modelled along its insert axis: *)
(* a sample is what the buffer holds at one position of that axis, and the *)
(* chunks given to insert() fit the buffer along the other axes.           *)
(***************************************************************************)

\* numpy.zeros(buffer_dims, dtype), along the insert axis.
Zeros(cap) == [i \in 1..cap |-> 0]

\* numpy.empty((0, 0))
EmptyData == [view |-> FALSE, len |-> 0]

\* A chunk of n samples, the next ones of the stream; ndim is data.ndim.
Chunk(ndim, n, first) ==
    [ndim |-> ndim, samples |-> [i \in 1..n |-> first + i]]

\* The chunks given to insert(): a 1-dimensional chunk is one sample, a
\* 2-dimensional one has 0..MaxChunk samples along the insert axis.
Chunks(first) ==
    {Chunk(1, 1, first)} \cup {Chunk(2, n, first) : n \in 0..MaxChunk}

NoChunk == Chunk(2, 0, 0)

\* BufferedArray.__init__ with buffer_dims[insert_axis] = cap.
BufferInit(cap) ==
    /\ capacity = cap
    /\ buffer = Zeros(cap)
    /\ pos = 0
    /\ overflow = FALSE
    /\ data = EmptyData
    /\ bufOp = "init"
    /\ lastChunk = NoChunk
    /\ offered = <<>>
    /\ accepted = <<>>
    /\ serial = 0
    /\ recovered = FALSE
    /\ bufOps = 0

\* The array is not used by the other specifications.
BufferUnused == BufferInit(1)

\* insert(), line 267, ignoring the flag: an overflowed array accepts chunks.
AlreadyOverflowed_Ignored(ov) == FALSE

\* insert(), lines 267-268: if self.overflow: return
AlreadyOverflowed(ov) == ov

\* insert(), lines 270-273: the chunk's extent along the insert axis.
NewSample(c) == IF c.ndim > 1 THEN Len(c.samples) ELSE 1

\* insert(), line 276, one position too strict: the chunk that exactly fills
\* the buffer is refused.
Overflows_AtCapacity(new_pos, cap) == new_pos >= cap

\* insert(), line 276, one position too lenient.
Overflows_OffByOne(new_pos, cap) == new_pos > cap + 1

\* insert(), line 276: if (new_pos > self.buffer_dims[self.insert_axis])
Overflows(new_pos, cap) == new_pos > cap

\* insert(), lines 281-287, with the slice starting at 0 instead of self.pos.
WriteAt_Start(buf, p, samples) ==
    [i \in 1..Len(buf) |-> IF i <= Len(samples) THEN samples[i] ELSE buf[i]]

\* insert(), lines 281-287: self.buffer[..., pos:new_pos, ...] = data
WriteAt(buf, p, samples) ==
    [i \in 1..Len(buf) |->
        IF p < i /\ i <= p + Len(samples) THEN samples[i - p] ELSE buf[i]]

\* insert(), lines 276-278, filling the buffer with the part of the chunk
\* that still fits.
OverflowBranch_PartialWrite(c) ==
    /\ overflow' = TRUE
    /\ buffer' = WriteAt(buffer, pos, SubSeq(c.samples, 1, capacity - pos))
    /\ pos' = capacity
    /\ accepted' = accepted \o SubSeq(c.samples, 1, capacity - pos)

\* insert(), lines 276-278: self.overflow = True; return
OverflowBranch(c) ==
    /\ overflow' = TRUE
    /\ UNCHANGED <<buffer, pos, accepted>>

\* BufferedArray.insert
Insert ==
    /\ bufOps < MaxBufOps
    /\ \E c \in Chunks(serial) :
        /\ lastChunk' = c
        /\ serial' = serial + Len(c.samples)
        /\ offered' = offered \o c.samples
        /\ IF AlreadyOverflowed(overflow)
           THEN UNCHANGED <<buffer, pos, overflow, accepted>>
           ELSE LET new_sample == NewSample(c)
                    new_pos == pos + new_sample
                IN  IF Overflows(new_pos, capacity)
                    THEN OverflowBranch(c)
                    ELSE /\ buffer' = WriteAt(buffer, pos, c.samples)
                         /\ pos' = pos + new_sample
                         /\ accepted' = accepted \o c.samples
                         /\ UNCHANGED overflow
    /\ bufOp' = "insert"
    /\ bufOps' = bufOps + 1
    /\ UNCHANGED <<capacity, data, recovered>>

\* clear(), without self.buffer.fill(0).
Clear_KeepsBuffer ==
    /\ bufOps < MaxBufOps
    /\ pos' = 0
    /\ overflow' = FALSE
    /\ data' = EmptyData
    /\ offered' = <<>>
    /\ accepted' = <<>>
    /\ recovered' = (recovered \/ overflow)
    /\ bufOp' = "clear"
    /\ bufOps' = bufOps + 1
    /\ UNCHANGED <<capacity, buffer, lastChunk, serial>>

\* BufferedArray.clear
Clear ==
    /\ bufOps < MaxBufOps
    /\ buffer' = Zeros(Len(buffer))
    /\ pos' = 0
    /\ overflow' = FALSE
    /\ data' = EmptyData
    /\ offered' = <<>>
    /\ accepted' = <<>>
    /\ recovered' = (recovered \/ overflow)
    /\ bufOp' = "clear"
    /\ bufOps' = bufOps + 1
    /\ UNCHANGED <<capacity, lastChunk, serial>>

\* BufferedArray.set_data: self.data becomes the slice 0:pos of the buffer, a
\* view of it, unless the array has overflowed.
SetData ==
    /\ bufOps < MaxBufOps
    /\ data' = IF overflow THEN data ELSE [view |-> TRUE, len |-> pos]
    /\ bufOp' = "set_data"
    /\ bufOps' = bufOps + 1
    /\ UNCHANGED <<capacity, buffer, pos, overflow, lastChunk, offered, accepted,
                   serial, recovered>>

\* What self.data holds along the insert axis.
DataContents == IF data.view THEN SubSeq(buffer, 1, data.len) ELSE <<>>

(***************************************************************************)
(* daq.py: _Sleeper, on a clock of integer ticks.                          *)
(***************************************************************************)

\* _Sleeper.__init__(read_time)
SleeperInit(interval) ==
    /\ read_time = interval
    /\ last_read_time = -1     \* None
    /\ now = 0
    /\ blocked = 0
    /\ callStart = -1
    /\ callReturn = -1
    /\ fresh = TRUE
    /\ wasFresh = FALSE
    /\ prevStart = -1
    /\ prevReturn = -1
    /\ prevLate = FALSE
    /\ late = FALSE

\* The sleeper is not used by the other specifications.
SleeperUnused == SleeperInit(1)

\* self.last_read_time = None
None == -1

\* sleep(), lines 487-491, without the except branch's early return: a late
\* caller sleeps for the time it is late.
SleepLength_Abs(requested) == IF requested < 0 THEN 0 - requested ELSE requested

\* sleep(), lines 487-491: time.sleep(requested) raises ValueError for a
\* negative length, and the except branch does not wait.
SleepLength(requested) == IF requested < 0 THEN 0 ELSE requested

\* sleep(), line 493, storing the time the call began.
Stamp_CallStart(t, ret, last, interval) == t

\* sleep(), line 493, storing the deadline the call was due at, so that a late
\* call shortens the waits that follow.
Stamp_Deadline(t, ret, last, interval) ==
    IF last = None THEN ret ELSE last + interval

\* sleep(), line 493: self.last_read_time = time.time(), read once
\* time.sleep() has returned at ret.
Stamp(t, ret, last, interval) == ret

\* The caller works between two calls: the clock advances.
Tick ==
    /\ now < MaxTime
    /\ now' = now + 1
    /\ UNCHANGED <<read_time, last_read_time, blocked, callStart, callReturn,
                   fresh, wasFresh, prevStart, prevReturn, prevLate, late>>

\* _Sleeper.sleep: t = time.time(); the first call sleeps read_time, a later
\* one read_time - (t - last_read_time) unless that is negative; time.sleep()
\* may return up to MaxLag ticks late.
Sleep ==
    LET t == now
        first == last_read_time = None
        requested == IF first THEN read_time
                     ELSE read_time - (t - last_read_time)
        length == IF first THEN read_time ELSE SleepLength(requested)
        raised == ~first /\ requested < 0
    IN  \E lag \in 0..MaxLag :
            LET ret == IF raised THEN t ELSE t + length + lag IN
            /\ ret <= MaxTime
            /\ now' = ret
            /\ last_read_time' = Stamp(t, ret, last_read_time, read_time)
            /\ blocked' = length
            /\ callStart' = t
            /\ callReturn' = ret
            /\ late' = raised
            /\ prevStart' = callStart
            /\ prevReturn' = callReturn
            /\ prevLate' = late
            /\ wasFresh' = fresh
            /\ fresh' = FALSE
            /\ UNCHANGED read_time

\* reset(), leaving self.last_read_time as it is.
SleeperReset_NoClear ==
    /\ fresh' = TRUE
    /\ UNCHANGED <<read_time, last_read_time, now, blocked, callStart, callReturn,
                   wasFresh, prevStart, prevReturn, prevLate, late>>

\* _Sleeper.reset
SleeperReset ==
    /\ last_read_time' = None
    /\ fresh' = TRUE
    /\ UNCHANGED <<read_time, now, blocked, callStart, callReturn, wasFresh,
                   prevStart, prevReturn, prevLate, late>>


(***************************************************************************)
(* design.py: Array.  An array is one- or two-dimensional: a record of its *)
(* number of dimensions and of its rows, a one-dimensional array being one *)
(* row.  Stacking along axis 2 (numpy.dstack) yields three-dimensional     *)
(* arrays and is left out.                                                 *)
(***************************************************************************)

\* self.data = None
NoArray == [ndim |-> 0, m |-> <<>>]

\* An array of the given shape filled, row by row, with first, first + 1, ...
MakeArray(dims, nrows, ncols, first) ==
    [ndim |-> dims,
     m |-> [i \in 1..nrows |-> [j \in 1..ncols |-> first + (i - 1) * ncols + j - 1]]]

\* The arrays a caller passes: vectors of 1..MaxCols values and matrices of
\* 1..MaxRows rows by 1..MaxCols columns.
ArraysFrom(first) ==
    {MakeArray(1, 1, nc, first) : nc \in 1..MaxCols}
        \cup {MakeArray(2, nr, nc, first) : nr \in 1..MaxRows, nc \in 1..MaxCols}

NumRows(x) == Len(x.m)
NumCols(x) == Len(x.m[1])
Size(x) == IF x = NoArray THEN 0 ELSE NumRows(x) * NumCols(x)

\* numpy.atleast_2d: a vector of length N becomes a 1-by-N matrix.
atleast_2d(x) == [ndim |-> 2, m |-> x.m]

\* numpy.concatenate along axis 0 of two matrices, and of two vectors.
JoinRows(x, y) == [ndim |-> 2, m |-> x.m \o y.m]
JoinEnds(x, y) == [ndim |-> 1, m |-> <<x.m[1] \o y.m[1]>>]

\* numpy.concatenate along axis 1 of two matrices.
JoinCols(x, y) == [ndim |-> 2, m |-> [i \in 1..NumRows(x) |-> x.m[i] \o y.m[i]]]

\* A slip in the stack function: arrays of any widths are accepted.
vstack_ok_AnyWidth(x, y) == TRUE

\* numpy.vstack([x, y]): both are made at least two-dimensional and joined
\* along axis 0; the column counts must agree, or numpy raises ValueError.
vstack_ok(x, y) == NumCols(x) = NumCols(y)
vstack(x, y) == JoinRows(atleast_2d(x), atleast_2d(y))

\* A slip in the order of the list given to the stack function: the new data
\* comes first.
hstack_NewFirst(x, y) ==
    IF x.ndim = 1 THEN JoinEnds(y, x) ELSE JoinCols(y, x)

\* numpy.hstack([x, y]): joined along axis 0 when the first is a vector, along
\* axis 1 otherwise; the numbers of dimensions must agree, and the row counts
\* of matrices, or numpy raises ValueError.
hstack_ok(x, y) == x.ndim = y.ndim /\ (x.ndim = 1 \/ NumRows(x) = NumRows(y))
hstack(x, y) ==
    IF x.ndim = 1 THEN JoinEnds(x, y) ELSE JoinCols(x, y)

\* _stack_funcs = {0: numpy.vstack, 1: numpy.hstack, ...}
stack_func_ok(axis, x, y) == IF axis = 0 THEN vstack_ok(x, y) ELSE hstack_ok(x, y)
stack_func(axis, x, y) == IF axis = 0 THEN vstack(x, y) ELSE hstack(x, y)

\* Array.__init__(data, stack_axis)
ArrayInit(initial, axis) ==
    /\ array_data = initial
    /\ stack_axis = axis
    /\ initial_data = initial
    /\ stacked = <<>>
    /\ arrOp = "init"
    /\ arrSerial = Size(initial)
    /\ arrOps = 0
    /\ offeredChunk = NoArray

ArrayUnused == ArrayInit(NoArray, 1)

\* Array.stack(data): the first chunk becomes self.data itself, a later one
\* is stacked onto self.data by the stack function of the axis; when numpy
\* raises, self.data is left as it was.
Stack ==
    /\ arrOps < MaxArrOps
    /\ arrOps' = arrOps + 1
    /\ \E chunk \in ArraysFrom(arrSerial + 1) :
        /\ arrSerial' = arrSerial + Size(chunk)
        /\ offeredChunk' = chunk
        /\ IF array_data = NoArray
           THEN /\ array_data' = chunk
                /\ stacked' = Append(stacked, chunk)
                /\ arrOp' = "stack"
           ELSE IF stack_func_ok(stack_axis, array_data, chunk)
           THEN /\ array_data' = stack_func(stack_axis, array_data, chunk)
                /\ stacked' = Append(stacked, chunk)
                /\ arrOp' = "stack"
           ELSE /\ arrOp' = "stack raised"
                /\ UNCHANGED <<array_data, stacked>>
    /\ UNCHANGED <<stack_axis, initial_data>>

\* Array.clear
ArrayClear ==
    /\ arrOps < MaxArrOps
    /\ arrOps' = arrOps + 1
    /\ array_data' = NoArray
    /\ initial_data' = NoArray
    /\ stacked' = <<>>
    /\ arrOp' = "clear"
    /\ UNCHANGED <<stack_axis, arrSerial, offeredChunk>>


(***************************************************************************)
(* design.py: Design, Block and Trial.  A dictionary is an object of the   *)
(* store dicts, named by its position there, so that two trials can hold   *)
(* the same dictionary; it maps the keys target, block and trial to a      *)
(* value or to Absent.  The generator of the module random is a state      *)
(* machine: the model keeps that and shortens its period to RngPeriod.     *)
(***************************************************************************)

\* A key the dictionary does not hold.
Absent == None

\* attrs = {}
EmptyDict == [target |-> Absent, block |-> Absent, trial |-> Absent]

\* The attributes a caller passes to add_trial in a dictionary of its own:
\* none (as with attrs=None), a target, and a target with values for the keys
\* block and trial.
CallerDicts ==
    {EmptyDict,
     [target |-> 3, block |-> Absent, trial |-> Absent],
     [target |-> 3, block |-> 7, trial |-> 7]}

\* A slip in add_trial: the caller's values for block and trial are kept.
update_KeepCaller(attrs, blk, n) ==
    [attrs EXCEPT !.block = IF @ = Absent THEN blk ELSE @,
                  !.trial = IF @ = Absent THEN n ELSE @]

\* attrs.update({'block': self.index, 'trial': len(self)})
update(attrs, blk, n) == [attrs EXCEPT !.block = blk, !.trial = n]

\* Trial(attrs=attrs): the trial holds the dictionary object it is given.
Trial(made, obj) == [made |-> made, attrs |-> obj]

\* A slip in add_block: the index counts the new block too.
Block_CountsItself(index) == [index |-> index + 1, trials |-> <<>>]

\* Block(index)
Block(index) == [index |-> index, trials |-> <<>>]

\* The argument of add_trial: a dictionary object made for the call (obj 0),
\* or one that exists already, held by the caller or by a trial.
TrialArgs ==
    {[obj |-> 0, val |-> v] : v \in CallerDicts}
        \cup {[obj |-> k, val |-> dicts[k]] : k \in 1..Len(dicts)}

\* The generator state random.seed(seed) sets.
SeedState_Ignored(seed, r) == r
SeedState(seed, r) == seed % RngPeriod

\* random's _randbelow(k): the value drawn and the generator state it leaves.
randbelow(r, k) == [value |-> r % k, rng |-> (r + 1) % RngPeriod]

Swap(x, i, j) == [x EXCEPT ![i] = x[j], ![j] = x[i]]

\* A slip in shuffle: a draw of the last position drops the trial there
\* instead of leaving it in place.
RECURSIVE shuffle_from_Dropping(_, _, _)
shuffle_from_Dropping(x, i, r) ==
    IF i < 2 THEN [list |-> x, rng |-> r]
    ELSE LET draw == randbelow(r, i)
         IN IF draw.value + 1 = i
            THEN shuffle_from_Dropping([x EXCEPT ![i] = x[1]], i - 1, draw.rng)
            ELSE shuffle_from_Dropping(Swap(x, i, draw.value + 1), i - 1, draw.rng)

\* random.shuffle(x): for i in reversed(range(1, len(x))): j = randbelow(i + 1);
\* x[i], x[j] = x[j], x[i].  The positions here are 1-based; the result is the
\* list and the generator state.
RECURSIVE shuffle_from(_, _, _)
shuffle_from(x, i, r) ==
    IF i < 2 THEN [list |-> x, rng |-> r]
    ELSE LET draw == randbelow(r, i)
         IN shuffle_from(Swap(x, i, draw.value + 1), i - 1, draw.rng)

\* for i, trial in enumerate(self): trial.attrs['trial'] = i, from position k
\* (1-based) on.
RECURSIVE reset_index_from(_, _, _)
reset_index_from(store, trials, k) ==
    IF k > Len(trials) THEN store
    ELSE reset_index_from([store EXCEPT ![trials[k].attrs].trial = k - 1],
                          trials, k + 1)

\* One call of shuffle, as recorded in shuffleLog.
Shuffled(blk, reset_index, seed, r, before, after) ==
    [blk |-> blk, reset_index |-> reset_index, seed |-> seed, rng |-> r,
     before |-> before, after |-> after]

NoAdd == [blk |-> 0, given |-> EmptyDict, trial |-> Trial(0, 0)]

\* Design(), holding the given blocks, and the generator in state r.
DesignInit(blocks, store, r) ==
    /\ design = blocks
    /\ dicts = store
    /\ rng = r
    /\ lastAdd = NoAdd
    /\ shuffleLog = <<>>
    /\ everPlain = {}
    /\ blockOp = "init"
    /\ blockOps = 0
    /\ returnedBlock = 0

DesignUnused == DesignInit(<<>>, <<>>, 0)

\* Design.add_block
AddBlock ==
    /\ blockOps < MaxBlockOps
    /\ Len(design) < MaxBlocks
    /\ design' = Append(design, Block(Len(design)))
    /\ returnedBlock' = Len(design')
    /\ blockOp' = "add_block"
    /\ blockOps' = blockOps + 1
    /\ UNCHANGED <<dicts, rng, lastAdd, shuffleLog, everPlain>>

\* Block.add_trial(attrs) on block b of the design.
AddTrial ==
    /\ blockOps < MaxBlockOps
    /\ \E b \in 1..Len(design), arg \in TrialArgs :
        LET obj == IF arg.obj = 0 THEN Len(dicts) + 1 ELSE arg.obj
            new == update(arg.val, design[b].index, Len(design[b].trials))
            trial == Trial(Len(design[b].trials), obj)
        IN /\ Len(design[b].trials) < MaxTrials
           /\ dicts' = IF arg.obj = 0 THEN Append(dicts, new)
                       ELSE [dicts EXCEPT ![obj] = new]
           /\ design' = [design EXCEPT ![b].trials = Append(@, trial)]
           /\ lastAdd' = [blk |-> b, given |-> arg.val, trial |-> trial]
    /\ blockOp' = "add_trial"
    /\ blockOps' = blockOps + 1
    /\ UNCHANGED <<rng, shuffleLog, everPlain, returnedBlock>>

\* Block.shuffle(reset_index, seed) on block b of the design.
Shuffle ==
    /\ blockOps < MaxBlockOps
    /\ Len(shuffleLog) < MaxShuffles
    /\ \E b \in 1..Len(design), reset_index \in BOOLEAN,
          seed \in {None} \cup (0..MaxSeed) :
        LET r == IF seed # None THEN SeedState(seed, rng) ELSE rng
            before == design[b].trials
            res == shuffle_from(before, Len(before), r)
        IN /\ design' = [design EXCEPT ![b].trials = res.list]
           /\ rng' = res.rng
           /\ dicts' = IF reset_index THEN reset_index_from(dicts, res.list, 1)
                       ELSE dicts
           /\ everPlain' = IF reset_index THEN everPlain ELSE everPlain \cup {b}
           /\ shuffleLog' = Append(shuffleLog,
                                   Shuffled(b, reset_index, seed, rng, before, res.list))
    /\ blockOp' = "shuffle"
    /\ blockOps' = blockOps + 1
    /\ UNCHANGED <<lastAdd, returnedBlock>>

\* Any other use of the module random by the program: the generator moves on.
RandomUse ==
    /\ blockOps < MaxBlockOps
    /\ rng' = randbelow(rng, 1).rng
    /\ blockOp' = "random"
    /\ blockOps' = blockOps + 1
    /\ UNCHANGED <<design, dicts, lastAdd, shuffleLog, everPlain, returnedBlock>>


(***************************************************************************)
(* timing.py: Timer, on a clock of whole ticks.  The QTimer it wraps is    *)
(* modelled by what Qt documents: start() arms it for its interval, again  *)
(* from the full interval when it is armed already, stop() disarms it, and *)
(* when the interval has passed it emits timeout, which is connected to    *)
(* the Timer's timeout.                                                    *)
(***************************************************************************)

\* A slip in the constructor: the QTimer is left repeating, and arms itself
\* again for another interval when it fires.
AfterTimeout_Repeating(interval) == [active |-> TRUE, remaining |-> interval]

\* self._qtimer.setSingleShot(True): the QTimer is disarmed when it fires.
AfterTimeout(interval) == [active |-> FALSE, remaining |-> 0]

\* Timer.__init__(duration)
TimerInit(dur) ==
    /\ duration = dur
    /\ qActive = FALSE
    /\ remaining = 0
    /\ fired = 0
    /\ elapsed = 0
    /\ stoppedEarly = FALSE
    /\ starts = 0
    /\ totalFired = 0
    /\ timerSteps = 0

TimerUnused == TimerInit(1)

\* Timer.start
TimerStart ==
    /\ timerSteps < MaxTimerSteps
    /\ timerSteps' = timerSteps + 1
    /\ qActive' = TRUE
    /\ remaining' = duration
    /\ fired' = 0
    /\ elapsed' = 0
    /\ stoppedEarly' = FALSE
    /\ starts' = starts + 1
    /\ UNCHANGED <<duration, totalFired>>

\* Timer.stop
TimerStop ==
    /\ timerSteps < MaxTimerSteps
    /\ timerSteps' = timerSteps + 1
    /\ qActive' = FALSE
    /\ stoppedEarly' = (stoppedEarly \/ (starts > 0 /\ elapsed < duration))
    /\ UNCHANGED <<duration, remaining, fired, elapsed, starts, totalFired>>

\* One tick of time passes; an armed QTimer whose interval ends with it emits
\* timeout.
TimerTick ==
    /\ timerSteps < MaxTimerSteps
    /\ timerSteps' = timerSteps + 1
    /\ elapsed' = IF starts > 0 THEN elapsed + 1 ELSE elapsed
    /\ IF qActive /\ remaining = 1
       THEN /\ fired' = fired + 1
            /\ totalFired' = totalFired + 1
            /\ qActive' = AfterTimeout(duration).active
            /\ remaining' = AfterTimeout(duration).remaining
       ELSE /\ remaining' = IF qActive THEN remaining - 1 ELSE remaining
            /\ UNCHANGED <<fired, totalFired, qActive>>
    /\ UNCHANGED <<duration, stoppedEarly, starts>>


(***************************************************************************)
(* daq.py: the descriptive accessors of DaqStream.                         *)
(***************************************************************************)

\* What the accessors read on the device: the attributes DEVICE_DETAILS and
\* CHANNELS and the method get_sample_properties.
DeviceNames == {"DEVICE_DETAILS", "get_sample_properties", "CHANNELS"}

\* self.device.<name>: the device's own value, or AttributeError when the
\* device has no such attribute or method.
getattr(name) == IF name \in devAttrs THEN "device value" ELSE "AttributeError"

\* try: ... except: deviceDetails = NeuranicsDevice()
OrPlaceholder(result) == IF result = "AttributeError" THEN "placeholder" ELSE result

\* DaqStream(device), seen by its accessors.
AccessorsInit(names) ==
    /\ devAttrs = names
    /\ lastQuery = "none"
    /\ queryResult = "none"

AccessorsUnused == AccessorsInit(DeviceNames)

\* DaqStream.get_device_details
GetDeviceDetails ==
    /\ ~waiting
    /\ lastQuery' = "get_device_details"
    /\ queryResult' = OrPlaceholder(getattr("DEVICE_DETAILS"))
    /\ UNCHANGED devAttrs

\* DaqStream.get_sample_properties
GetSampleProperties ==
    /\ ~waiting
    /\ lastQuery' = "get_sample_properties"
    /\ queryResult' = getattr("get_sample_properties")
    /\ UNCHANGED devAttrs

\* DaqStream.get_channels
GetChannels ==
    /\ ~waiting
    /\ lastQuery' = "get_channels"
    /\ queryResult' = getattr("CHANNELS")
    /\ UNCHANGED devAttrs

(***************************************************************************)
(* timing.py: a StepCounter, the counter object above, next to a Counter   *)
(* built with the same max_count and reset_on_timeout and given the same   *)
(* increment() and reset() calls.                                          *)
(***************************************************************************)

\* Counter.__init__ of the second counter.
TwinInit ==
    /\ twinCount = 0
    /\ twinEmitted = <<>>

TwinUnused == TwinInit

\* Counter.increment on the second counter.
TwinCounterIncrement ==
    LET c == BumpedCount(twinCount) IN
        /\ twinCount' = CountAfterIncrement(c, max_count, reset_on_timeout)
        /\ twinEmitted' = TimeoutEvents(c, max_count, reset_on_timeout)

\* Counter.reset on the second counter.
TwinCounterReset ==
    /\ twinCount' = ResetCount
    /\ twinEmitted' = <<>>

\* increment() is called on both counters.
BothIncrement == StepCounterIncrement /\ TwinCounterIncrement

\* reset() is called on both counters.
BothReset == Reset /\ TwinCounterReset

\* add_step() is called on the StepCounter; a Counter has no such method.
StepCounterAddStep == AddStep /\ UNCHANGED <<twinCount, twinEmitted>>

(***************************************************************************)
(* daq.py: Keyboard.  read() runs in the worker thread of the DaqStream    *)
(* and eventFilter in the thread of the Qt application; nothing orders the *)
(* statements of the one against the calls of the other.                   *)
(***************************************************************************)

\* self.keys, by position.
Keys == 1..MaxKeys

\* numpy.zeros((len(self.keys), 1))
KeyZeros == [k \in Keys |-> 0]

\* A key press eventFilter recorded: its key, the read() calls whose copy
\* held the 1 it wrote, and whether that 1 is still in self._data.
Press(key) == [key |-> key, reports |-> 0, live |-> TRUE]

\* Keyboard.__init__
KeyboardInit ==
    /\ kbData = KeyZeros
    /\ kbPc = "idle"
    /\ kbOut = KeyZeros
    /\ lastRead = KeyZeros
    /\ presses = <<>>
    /\ filtered = FALSE
    /\ kbSteps = 0

KeyboardUnused == KeyboardInit

\* read(), line 377: self._sleeper.sleep()
ReadSleep ==
    /\ kbSteps < MaxKbSteps
    /\ kbPc = "idle"
    /\ kbPc' = "slept"
    /\ kbSteps' = kbSteps + 1
    /\ UNCHANGED <<kbData, kbOut, lastRead, presses, filtered>>

\* read(), line 378: out = self._data.copy()
ReadCopy ==
    /\ kbSteps < MaxKbSteps
    /\ kbPc = "slept"
    /\ kbOut' = kbData
    /\ presses' = [i \in 1..Len(presses) |->
                     IF presses[i].live /\ kbData[presses[i].key] = 1
                     THEN [presses[i] EXCEPT !.reports = @ + 1]
                     ELSE presses[i]]
    /\ kbPc' = "copied"
    /\ kbSteps' = kbSteps + 1
    /\ UNCHANGED <<kbData, lastRead, filtered>>

\* read(), lines 379-380: self._data *= 0; return out
ReadClear ==
    /\ kbSteps < MaxKbSteps
    /\ kbPc = "copied"
    /\ kbData' = [k \in Keys |-> kbData[k] * 0]
    /\ presses' = [i \in 1..Len(presses) |-> [presses[i] EXCEPT !.live = FALSE]]
    /\ lastRead' = kbOut
    /\ kbPc' = "idle"
    /\ kbSteps' = kbSteps + 1
    /\ UNCHANGED <<kbOut, filtered>>

\* The events the application passes to eventFilter: the press of a watched
\* key, or anything else (another key, another type of event), written 0.
KeyEvents == Keys \cup {0}

\* Keyboard.eventFilter
EventFilter ==
    /\ kbSteps < MaxKbSteps
    /\ \E ev \in KeyEvents :
        IF ev \in Keys
        THEN /\ kbData' = [kbData EXCEPT ![ev] = 1]
             /\ presses' = Append(presses, Press(ev))
             /\ filtered' = TRUE
        ELSE /\ filtered' = FALSE
             /\ UNCHANGED <<kbData, presses>>
    /\ kbSteps' = kbSteps + 1
    /\ UNCHANGED <<kbPc, kbOut, lastRead>>

StreamIdle ==
    /\ running = FALSE
    /\ wpc = "idle"
    /\ d = 0
    /\ log = <<>>
    /\ reads = 0
    /\ waiting = FALSE
    /\ stopRequested = FALSE
    /\ stopWaitReturned = FALSE
    /\ readsAfterStop = 0
    /\ dAfterStop = FALSE
    /\ strayEmitted = FALSE
    /\ runs = 0

InitTiming ==
    /\ CounterInit
    /\ StreamIdle
    /\ BufferUnused
    /\ SleeperUnused
    /\ ArrayUnused
    /\ DesignUnused
    /\ TimerUnused
    /\ TwinUnused
    /\ AccessorsUnused
    /\ KeyboardUnused

NextTiming ==
    \/ (CounterIncrement /\ UNCHANGED notTimingVars)
    \/ (StepCounterIncrement /\ UNCHANGED notTimingVars)
    \/ (Reset /\ UNCHANGED notTimingVars)
    \/ (AddStep /\ UNCHANGED notTimingVars)

SpecTiming == InitTiming /\ [][NextTiming]_vars

(***************************************************************************)
(* Properties of Counter and StepCounter, checked under SpecTiming.        *)
(***************************************************************************)

\* The timeout events among the events of the last call.
Timeouts == SelectSeq(emitted, IsTimeout)

\* The step events among the events of the last call.
Steps == SelectSeq(emitted, IsStep)

\* C1: with reset_on_timeout set and any max_count >= 1, after every
\* increment() in any sequence of increment() and reset() calls the count is
\* at least 0 and less than max_count.
C1_CountInRange ==
    (reset_on_timeout /\ lastOp = "increment") =>
        (0 <= count /\ count < max_count)

\* C1's case: an increment that wrapped the count, after an earlier reset().
C1_Witness ==
    /\ reset_on_timeout
    /\ lastOp = "increment"
    /\ max_count > 1
    /\ count = 0
    /\ nInc = max_count
    /\ calls > nInc

\* C2: with reset_on_timeout set, n increment() calls with no reset() in
\* between emit timeout exactly floor(n / max_count) times, one on each
\* increment whose ordinal is a multiple of max_count and none on any other.
C2_TimeoutOncePerMaxCount ==
    reset_on_timeout =>
        /\ nTimeout = nInc \div max_count
        /\ lastOp = "increment" =>
            Len(Timeouts) = (IF nInc % max_count = 0 THEN 1 ELSE 0)

\* C2's case: Counter(2) after its fourth increment, the second timeout.
C2_Witness ==
    /\ kind = "Counter"
    /\ reset_on_timeout
    /\ max_count = 2
    /\ lastOp = "increment"
    /\ nInc = 4
    /\ nTimeout = 2
    /\ Len(Timeouts) = 1
    /\ count = 0

\* C3: with reset_on_timeout set, every handler of timeout, on a Counter and
\* on a StepCounter, observes count = 0: the reset precedes the emission.
C3_TimeoutSeesResetCount ==
    reset_on_timeout =>
        \A k \in 1..Len(emitted) :
            IsTimeout(emitted[k]) => emitted[k].seen = 0

\* C3's case: a StepCounter whose increment fired a step at max_count and
\* then the timeout, whose handler saw the count already reset.
C3_Witness ==
    /\ kind = "StepCounter"
    /\ reset_on_timeout
    /\ max_count > 1
    /\ lastOp = "increment"
    /\ Len(Steps) = 1
    /\ Steps[1].seen = max_count
    /\ Len(Timeouts) = 1
    /\ Timeouts[1].seen = 0

\* C4: every StepCounter.increment() emits, within the call and before any
\* timeout, one step event for each registered step whose checkpoint equals
\* the new count (count + 1), in registration order, steps sharing a
\* checkpoint included, and none for a step registered at another count.
C4_StepsAtNewCount ==
    [][(kind = "StepCounter" /\ calls' = calls + 1 /\ lastOp' = "increment") =>
        LET steps == SelectSeq(emitted', IsStep) IN
        /\ \A i \in 1..Len(step_count) :
            (step_count[i] = count + 1) <=>
                (\E k \in 1..Len(steps) : steps[k].id = i - 1)
        /\ \A k \in 1..Len(steps) : steps[k].id \in 0..(Len(step_count) - 1)
        /\ \A j, k \in 1..Len(steps) : j < k => steps[j].id < steps[k].id
        /\ \A j, k \in 1..Len(emitted') :
            (IsStep(emitted'[j]) /\ IsTimeout(emitted'[k])) => j < k
      ]_vars

\* C4's case: StepCounter(5) with steps a and b at checkpoint 2 and c at
\* checkpoint 4, after its second increment: a and b fired, in that order, and
\* c did not.
C4_Witness ==
    /\ kind = "StepCounter"
    /\ max_count = 5
    /\ step_count = <<2, 2, 4>>
    /\ lastOp = "increment"
    /\ nInc = 2
    /\ emitted = <<Event("step", 0, 2), Event("step", 1, 2)>>

(***************************************************************************)
(* daq.py: DaqStream                                                       *)
(***************************************************************************)

\* One entry of the run's log: a device call or an emitted event.
Entry(what, chunk) == [what |-> what, chunk |-> chunk]

\* QThread.isRunning(): start() has spawned the thread and run() has not
\* returned yet.
ThreadRunning == wpc \notin {"idle", "done"}

\* DaqStream.start, called while the thread is not running: QThread.start()
\* spawns the worker and returns; the worker has not executed anything yet.
Start ==
    /\ ~waiting
    /\ ~ThreadRunning
    /\ runs < MaxRuns
    /\ wpc' = "l88"
    /\ runs' = runs + 1
    /\ log' = <<>>
    /\ reads' = 0
    /\ d' = 0
    /\ stopRequested' = FALSE
    /\ stopWaitReturned' = FALSE
    /\ readsAfterStop' = 0
    /\ dAfterStop' = FALSE
    /\ strayEmitted' = FALSE
    /\ UNCHANGED <<running, waiting>>

\* DaqStream.start, called while the thread is running: QThread.start() does
\* nothing.
StartWhileRunning ==
    /\ ~waiting
    /\ ThreadRunning
    /\ UNCHANGED streamVars

\* DaqStream.stop(wait): self._running = False, and with wait the caller
\* enters self.wait().
Stop ==
    /\ ~waiting
    /\ \E wait \in BOOLEAN :
        /\ running' = FALSE
        /\ stopRequested' = (stopRequested \/ ThreadRunning)
        /\ waiting' = wait
    /\ UNCHANGED <<wpc, d, log, reads, stopWaitReturned, readsAfterStop,
                   dAfterStop, strayEmitted, runs>>

\* A slip in stop(): the caller does not join the worker, and returns from
\* stop(wait=True) whatever the worker is doing.
WaitReturn_NoJoin ==
    /\ waiting
    /\ waiting' = FALSE
    /\ stopWaitReturned' = (stopWaitReturned \/ runs > 0)
    /\ UNCHANGED <<running, wpc, d, log, reads, stopRequested, readsAfterStop,
                   dAfterStop, strayEmitted, runs>>

\* self.wait() returns: QThread.wait() blocks until run() has returned, and
\* returns at once for a thread that was never started.
WaitReturn ==
    /\ waiting
    /\ ~ThreadRunning
    /\ waiting' = FALSE
    /\ stopWaitReturned' = (stopWaitReturned \/ runs > 0)
    /\ UNCHANGED <<running, wpc, d, log, reads, stopRequested, readsAfterStop,
                   dAfterStop, strayEmitted, runs>>

\* run(), line 88: self._running = True
L88 ==
    /\ wpc = "l88"
    /\ running' = TRUE
    /\ wpc' = "l90"
    /\ UNCHANGED <<d, log, reads, waiting, stopRequested, stopWaitReturned,
                   readsAfterStop, dAfterStop, strayEmitted, runs>>

\* run(), line 90: self.device.start()
L90 ==
    /\ wpc = "l90"
    /\ log' = Append(log, Entry("device.start", 0))
    /\ wpc' = "l93"
    /\ UNCHANGED <<running, d, reads, waiting, stopRequested, stopWaitReturned,
                   readsAfterStop, dAfterStop, strayEmitted, runs>>

\* A slip at the loop exit: run() returns from the loop instead of breaking
\* out of it, and skips self.device.stop().
L93_SkipDeviceStop ==
    /\ wpc = "l93"
    /\ wpc' = IF ~running THEN "l106" ELSE "l97"
    /\ UNCHANGED <<running, d, log, reads, waiting, stopRequested,
                   stopWaitReturned, readsAfterStop, dAfterStop, strayEmitted, runs>>

\* run(), lines 92-94: while True: if not self._running: break
L93 ==
    /\ wpc = "l93"
    /\ wpc' = IF ~running THEN "l105" ELSE "l97"
    /\ UNCHANGED <<running, d, log, reads, waiting, stopRequested,
                   stopWaitReturned, readsAfterStop, dAfterStop, strayEmitted, runs>>

\* run(), lines 96-97: d = self.device.read() returns the next chunk.
L97ReadOk ==
    /\ wpc = "l97"
    /\ reads < MaxReads
    /\ reads' = reads + 1
    /\ d' = reads + 1
    /\ log' = Append(log, Entry("device.read", reads + 1))
    /\ dAfterStop' = stopRequested
    /\ readsAfterStop' = readsAfterStop + (IF stopRequested THEN 1 ELSE 0)
    /\ wpc' = "l102"
    /\ UNCHANGED <<running, waiting, stopRequested, stopWaitReturned,
                   strayEmitted, runs>>

\* run(), lines 96-98: self.device.read() raises IOError.
L97ReadIOError ==
    /\ wpc = "l97"
    /\ log' = Append(log, Entry("device.read failed", 0))
    /\ wpc' = "l99"
    /\ UNCHANGED <<running, d, reads, waiting, stopRequested, stopWaitReturned,
                   readsAfterStop, dAfterStop, strayEmitted, runs>>

\* A slip in the except branch: break instead of return, so that the run goes
\* on to self.device.stop() and self.finished.emit().
L99_Break ==
    /\ wpc = "l99"
    /\ log' = Append(log, [what |-> "disconnected", chunk |-> 0])
    /\ wpc' = "l105"
    /\ UNCHANGED <<running, d, reads, waiting, stopRequested, stopWaitReturned,
                   readsAfterStop, dAfterStop, strayEmitted, runs>>

\* run(), lines 99-100: self.disconnected.emit(); return
L99 ==
    /\ wpc = "l99"
    /\ log' = Append(log, Entry("disconnected", 0))
    /\ wpc' = "done"
    /\ UNCHANGED <<running, d, reads, waiting, stopRequested, stopWaitReturned,
                   readsAfterStop, dAfterStop, strayEmitted, runs>>

\* A slip at line 102: the test is inverted, and a chunk read while the stream
\* runs is dropped.
L102_Inverted ==
    /\ wpc = "l102"
    /\ wpc' = IF ~running THEN "l103" ELSE "l93"
    /\ UNCHANGED <<running, d, log, reads, waiting, stopRequested,
                   stopWaitReturned, readsAfterStop, dAfterStop, strayEmitted, runs>>

\* run(), line 102: if self._running
L102 ==
    /\ wpc = "l102"
    /\ wpc' = IF running THEN "l103" ELSE "l93"
    /\ UNCHANGED <<running, d, log, reads, waiting, stopRequested,
                   stopWaitReturned, readsAfterStop, dAfterStop, strayEmitted, runs>>

\* run(), line 103: self.updated.emit(d)
L103 ==
    /\ wpc = "l103"
    /\ log' = Append(log, Entry("updated", d))
    /\ strayEmitted' = (strayEmitted \/ dAfterStop)
    /\ wpc' = "l93"
    /\ UNCHANGED <<running, d, reads, waiting, stopRequested, stopWaitReturned,
                   readsAfterStop, dAfterStop, runs>>

\* run(), line 105: self.device.stop()
L105 ==
    /\ wpc = "l105"
    /\ log' = Append(log, Entry("device.stop", 0))
    /\ wpc' = "l106"
    /\ UNCHANGED <<running, d, reads, waiting, stopRequested, stopWaitReturned,
                   readsAfterStop, dAfterStop, strayEmitted, runs>>

\* run(), line 106: self.finished.emit(), after which run() returns.
L106 ==
    /\ wpc = "l106"
    /\ log' = Append(log, Entry("finished", 0))
    /\ wpc' = "done"
    /\ UNCHANGED <<running, d, reads, waiting, stopRequested, stopWaitReturned,
                   readsAfterStop, dAfterStop, strayEmitted, runs>>

\* run(), lines 96-98, a slip: the except clause catches every error, and the
\* run goes on to self.disconnected.emit().
L97ReadOtherError_Caught ==
    /\ wpc = "l97"
    /\ log' = Append(log, [what |-> "device.read raised", chunk |-> 0])
    /\ wpc' = "l99"
    /\ UNCHANGED <<running, d, reads, waiting, stopRequested, stopWaitReturned,
                   readsAfterStop, dAfterStop, strayEmitted, runs>>

\* run(), lines 96-98: self.device.read() raises an error that is not an
\* IOError; no except clause matches, the error leaves run() and the thread
\* ends.
L97ReadOtherError ==
    /\ wpc = "l97"
    /\ log' = Append(log, Entry("device.read raised", 0))
    /\ wpc' = "done"
    /\ UNCHANGED <<running, d, reads, waiting, stopRequested, stopWaitReturned,
                   readsAfterStop, dAfterStop, strayEmitted, runs>>

\* The counter object is not used by the stream.
CounterUnused ==
    /\ kind = "Counter"
    /\ max_count = 1
    /\ reset_on_timeout = TRUE
    /\ count = 0
    /\ step_count = <<>>
    /\ step_inc = 0
    /\ emitted = <<>>
    /\ lastOp = "init"
    /\ nInc = 0
    /\ nTimeout = 0
    /\ calls = 0
    /\ nRefused = 0

InitStream ==
    /\ StreamIdle
    /\ CounterUnused
    /\ BufferUnused
    /\ SleeperUnused
    /\ ArrayUnused
    /\ DesignUnused
    /\ TimerUnused
    /\ TwinUnused
    /\ \E names \in SUBSET DeviceNames : AccessorsInit(names)
    /\ KeyboardUnused

NextStream ==
    \/ (Start /\ UNCHANGED notStreamVars)
    \/ (StartWhileRunning /\ UNCHANGED notStreamVars)
    \/ (Stop /\ UNCHANGED notStreamVars)
    \/ (WaitReturn /\ UNCHANGED notStreamVars)
    \/ (L88 /\ UNCHANGED notStreamVars)
    \/ (L90 /\ UNCHANGED notStreamVars)
    \/ (L93 /\ UNCHANGED notStreamVars)
    \/ (L97ReadOk /\ UNCHANGED notStreamVars)
    \/ (L97ReadIOError /\ UNCHANGED notStreamVars)
    \/ (L97ReadOtherError /\ UNCHANGED notStreamVars)
    \/ (L99 /\ UNCHANGED notStreamVars)
    \/ (L102 /\ UNCHANGED notStreamVars)
    \/ (L103 /\ UNCHANGED notStreamVars)
    \/ (L105 /\ UNCHANGED notStreamVars)
    \/ (L106 /\ UNCHANGED notStreamVars)
    \/ (GetDeviceDetails /\ UNCHANGED notAccessorVars)
    \/ (GetSampleProperties /\ UNCHANGED notAccessorVars)
    \/ (GetChannels /\ UNCHANGED notAccessorVars)

SpecStream == InitStream /\ [][NextStream]_vars


(***************************************************************************)
(* Properties of DaqStream, checked under SpecStream.                      *)
(***************************************************************************)

IsEvent(e) == e.what \in {"updated", "disconnected", "finished"}

\* The events this run emitted, in order.
Events == SelectSeq(log, IsEvent)

\* The number of entries of the log of kind what.
Count(what) == Cardinality({i \in 1..Len(log) : log[i].what = what})

\* The run called read() and the call raised the disconnection error.
ReadFailed == Count("device.read failed") > 0

\* The run called read() and the call raised another error.
ReadRaised == Count("device.read raised") > 0

\* The updated events of the chunks 1..k, in read order.
UpdatedUpTo(k) == [i \in 1..k |-> Entry("updated", i)]

\* C5: when read() fails after k successful reads and no stop() has been
\* requested, the run emits exactly k updated events, then exactly one
\* disconnected event, and never a finished event.
C5_DisconnectAfterKReads ==
    (ReadFailed /\ ~stopRequested) =>
        /\ Count("finished") = 0
        /\ wpc = "l99" => Events = UpdatedUpTo(reads)
        /\ wpc = "done" =>
            Events = UpdatedUpTo(reads) \o <<Entry("disconnected", 0)>>
        /\ wpc \in {"l99", "done"}

\* C5's case: the third read failed, after two updated events.
C5_Witness ==
    /\ ReadFailed
    /\ ~stopRequested
    /\ wpc = "done"
    /\ reads = 2
    /\ Events = <<Entry("updated", 1), Entry("updated", 2),
                  Entry("disconnected", 0)>>

\* C6: a run that ends by a clean stop calls the device's stop() exactly once,
\* after the last read() and before the single finished event; a run that
\* ends by a device read failure never calls the device's stop().
C6_DeviceStopOnCleanStopOnly ==
    /\ Count("device.stop") <= 1
    /\ Count("finished") <= 1
    /\ ReadFailed => Count("device.stop") = 0
    /\ (wpc = "done" /\ ~ReadFailed /\ ~ReadRaised) =>
        /\ Len(log) >= 2
        /\ log[Len(log) - 1] = Entry("device.stop", 0)
        /\ log[Len(log)] = Entry("finished", 0)
        /\ Count("device.stop") = 1
        /\ Count("finished") = 1

\* C6's case: a run that read chunks and was then stopped cleanly.
C6_Witness ==
    /\ wpc = "done"
    /\ ~ReadFailed
    /\ stopRequested
    /\ reads >= 2
    /\ Count("device.stop") = 1

\* C7: no updated event is emitted for a device read that returns after
\* stop() has set running to false, under every interleaving of stop() with
\* the worker.
C7_NoUpdatedAfterStop == ~strayEmitted

\* C8, as stated: when stop(wait=true) returns on a started stream the worker
\* has exited, the device's stop() has been called and finished has been
\* emitted.
C8_StopWaitMeansFinished ==
    stopWaitReturned =>
        /\ wpc = "done"
        /\ Count("device.stop") = 1
        /\ Count("finished") = 1

\* C8, amended: when stop(wait=true) returns on a started stream the worker's
\* run() has returned; and unless that run ended by a device read failure, the
\* device's stop() has been called once and finished was emitted after it.
C8_StopWaitJoinsWorker ==
    stopWaitReturned =>
        /\ wpc = "done"
        /\ (~ReadFailed /\ ~ReadRaised) =>
            /\ Count("device.stop") = 1
            /\ Count("finished") = 1
            /\ log[Len(log)] = Entry("finished", 0)

\* C8's case: stop(wait=true) returned after a run that read chunks and was
\* stopped cleanly.
C8_Witness ==
    /\ stopWaitReturned
    /\ stopRequested
    /\ ~ReadFailed
    /\ reads >= 1
    /\ Count("finished") = 1

\* C9: after a stop() called once start() has returned, the worker completes
\* at most one further device read, under every interleaving, a stop() that
\* runs before the worker's first statement included.
C9_AtMostOneReadAfterStop == readsAfterStop <= 1

\* C10: once the worker has terminated, by stop() or by a device read
\* failure, the running flag is false.
C10_TerminatedMeansNotRunning == (wpc = "done") => ~running

(***************************************************************************)
(* BufferedArray under every sequence of insert(), set_data() and clear(). *)
(***************************************************************************)

InitBuffer ==
    /\ \E cap \in 1..MaxCap : BufferInit(cap)
    /\ CounterUnused
    /\ StreamIdle
    /\ SleeperUnused
    /\ ArrayUnused
    /\ DesignUnused
    /\ TimerUnused
    /\ TwinUnused
    /\ AccessorsUnused
    /\ KeyboardUnused

NextBuffer ==
    \/ (Insert /\ UNCHANGED notBufferVars)
    \/ (SetData /\ UNCHANGED notBufferVars)
    \/ (Clear /\ UNCHANGED notBufferVars)

SpecBuffer == InitBuffer /\ [][NextBuffer]_vars

\* The step is a call of insert().
InsertStep == bufOps' = bufOps + 1 /\ bufOp' = "insert"

\* C11: after any sequence of insert, set_data and clear calls,
\* 0 <= pos <= capacity, the buffer's extent along the insert axis.
C11_PosWithinCapacity == 0 <= pos /\ pos <= capacity

\* C11's case: the buffer was filled to its capacity and a further insert was
\* refused.
C11_Witness ==
    /\ capacity > 1
    /\ pos = capacity
    /\ overflow
    /\ bufOp = "insert"

\* C12: overflow is sticky: once it is true, every later insert leaves pos,
\* the buffer and overflow unchanged, even when the chunk would fit, and
\* overflow becomes false again only through clear().
C12_OverflowSticky ==
    [][ /\ (overflow /\ InsertStep) =>
            (pos' = pos /\ buffer' = buffer /\ overflow')
        /\ (overflow /\ ~overflow') => bufOp' = "clear"
      ]_vars

\* C12's case: the array had overflowed before the last insert, whose chunk
\* would have fitted in the remaining capacity, and it is still overflowed.
C12_Witness ==
    /\ overflow
    /\ bufOp = "insert"
    /\ Len(offered) - Len(lastChunk.samples) > capacity
    /\ NewSample(lastChunk) > 0
    /\ pos + NewSample(lastChunk) <= capacity

\* C13: an insert whose chunk would make pos exceed the capacity writes no
\* part of the chunk, leaves pos unchanged and sets overflow; the call
\* returns normally.
C13_AllOrNothing ==
    [][ (~overflow /\ InsertStep /\ pos + NewSample(lastChunk') > capacity) =>
            (buffer' = buffer /\ pos' = pos /\ overflow')
      ]_vars

\* C13's case: the last insert overflowed an array that had room left for a
\* part of its chunk.
C13_Witness ==
    /\ overflow
    /\ bufOp = "insert"
    /\ 0 < pos
    /\ pos < capacity
    /\ offered = accepted \o lastChunk.samples
    /\ buffer = accepted \o Zeros(capacity - pos)

\* C14: in every reachable state, set_data calls made before the overflowing
\* insert included, overflow implies that data is empty.
C14_OverflowMeansEmptyData == overflow => data.len = 0

\* C15: when the chunks inserted into an empty array have a total extent of
\* at most the capacity, set_data() after them makes data the concatenation
\* of the chunks in insertion order, of extent pos, and overflow is false.
C15_SetDataIsConcatenation ==
    (bufOp = "set_data" /\ Len(offered) <= capacity) =>
        /\ DataContents = offered
        /\ data.len = pos
        /\ pos = Len(offered)
        /\ ~overflow

\* C15's case: several chunks that fill the array exactly, then set_data().
C15_Witness ==
    /\ bufOp = "set_data"
    /\ capacity = 3
    /\ Len(offered) = capacity
    /\ Len(lastChunk.samples) < Len(offered)
    /\ DataContents = offered
    /\ DataContents[1] < DataContents[3]

\* C16: clear() returns the array to its freshly constructed state (pos 0,
\* overflow false, buffer all zero, data empty); inserts after it are
\* accepted again, and a following set_data() exposes only the chunks
\* inserted after the clear.
C16_ClearRestoresFresh ==
    /\ bufOp = "clear" =>
        (pos = 0 /\ ~overflow /\ buffer = Zeros(capacity) /\ data = EmptyData)
    /\ (bufOp = "insert" /\ Len(offered) <= capacity) =>
        (~overflow /\ accepted = offered /\ pos = Len(offered))
    /\ (bufOp = "set_data" /\ ~overflow) =>
        (DataContents = accepted /\ data.len = Len(accepted))

\* C16's case: an overflowed array was cleared, took a chunk again, and
\* set_data() exposed that chunk alone.
C16_Witness ==
    /\ recovered
    /\ bufOp = "set_data"
    /\ ~overflow
    /\ Len(accepted) > 0
    /\ serial > Len(accepted)
    /\ DataContents = accepted

(***************************************************************************)
(* _Sleeper under every schedule of sleep() and reset() calls.             *)
(***************************************************************************)

InitSleeper ==
    /\ \E interval \in 1..MaxInterval : SleeperInit(interval)
    /\ CounterUnused
    /\ StreamIdle
    /\ BufferUnused
    /\ ArrayUnused
    /\ DesignUnused
    /\ TimerUnused
    /\ TwinUnused
    /\ AccessorsUnused
    /\ KeyboardUnused

NextSleeper ==
    \/ (Tick /\ UNCHANGED notSleeperVars)
    \/ (Sleep /\ UNCHANGED notSleeperVars)
    \/ (SleeperReset /\ UNCHANGED notSleeperVars)

SpecSleeper == InitSleeper /\ [][NextSleeper]_vars

Max0(x) == IF x < 0 THEN 0 ELSE x

\* The last sleep() call was not the first since construction or reset().
NotFirstCall == callStart >= 0 /\ ~wasFresh

\* C17, as stated: on every sleep() call after the first, the time blocked is
\* interval minus the time elapsed since the start of the previous call.
C17_BlockedFromPreviousStart ==
    NotFirstCall => blocked = Max0(read_time - (callStart - prevStart))

\* C17, amended: on every sleep() call after the first, the time blocked is
\* interval minus the time elapsed since the previous call returned, or
\* nothing when more than interval has elapsed: the cadence is kept relative
\* to the previous call's return.
C17_BlockedFromPreviousReturn ==
    NotFirstCall => blocked = Max0(read_time - (callStart - prevReturn))

\* C17's case: a call made some time after the previous call had returned,
\* which itself had blocked, and which waited for the rest of the interval.
C17_Witness ==
    /\ NotFirstCall
    /\ prevReturn > prevStart
    /\ callStart > prevReturn
    /\ blocked > 0
    /\ blocked < read_time

\* C18, as stated: a call that is not the first never returns before interval
\* has elapsed since the start of the previous call, and when more than
\* interval has already elapsed since then at the time of the call, it
\* returns immediately without blocking.
C18_PacedFromPreviousStart ==
    NotFirstCall =>
        /\ callReturn >= prevStart + read_time
        /\ (callStart - prevStart > read_time) =>
            (blocked = 0 /\ callReturn = callStart)

\* C18, amended: a call that is not the first never returns before interval
\* has elapsed since the previous call returned, except when more than
\* interval has already elapsed since then at the time of the call, and then
\* it returns immediately without blocking.
C18_PacedFromPreviousReturn ==
    NotFirstCall =>
        /\ (callStart - prevReturn <= read_time) =>
            callReturn >= prevReturn + read_time
        /\ (callStart - prevReturn > read_time) =>
            (blocked = 0 /\ callReturn = callStart)

\* C18's case: a call that arrived behind schedule and returned at once.
C18_Witness ==
    /\ NotFirstCall
    /\ callStart - prevReturn > read_time
    /\ late
    /\ callReturn = callStart

\* C19: after a call that arrived late and returned without blocking, the
\* wait of the next call is computed from the late call's own timestamp
\* alone: it is not shortened to make up for the lateness.
C19_LatenessForgiven ==
    (NotFirstCall /\ prevLate) =>
        blocked = Max0(read_time - (callStart - prevStart))

\* C19's case: the call after a late call waited, for the interval less the
\* time elapsed since the late call.
C19_Witness ==
    /\ NotFirstCall
    /\ prevLate
    /\ callStart > prevStart
    /\ blocked > 0

\* C20: the first sleep() after construction and the first sleep() after any
\* reset() block for the full interval, whatever calls came before the reset.
C20_FirstCallBlocksFullInterval ==
    (callStart >= 0 /\ wasFresh) =>
        (blocked = read_time /\ callReturn >= callStart + read_time)

\* C20's case: the first call after a reset() that followed earlier calls, at
\* a time when a paced call would not have waited the full interval.
C20_Witness ==
    /\ callStart >= 0
    /\ wasFresh
    /\ prevReturn >= 0
    /\ callStart - prevReturn > 0
    /\ blocked = read_time

(***************************************************************************)
(* Array under every sequence of stack() and clear() calls.                *)
(***************************************************************************)

InitArray ==
    /\ \E initial \in {NoArray} \cup ArraysFrom(1), axis \in {0, 1} :
        ArrayInit(initial, axis)
    /\ CounterUnused
    /\ StreamIdle
    /\ BufferUnused
    /\ SleeperUnused
    /\ DesignUnused
    /\ TimerUnused
    /\ TwinUnused
    /\ AccessorsUnused
    /\ KeyboardUnused

NextArray ==
    \/ (Stack /\ UNCHANGED notArrayVars)
    \/ (ArrayClear /\ UNCHANGED notArrayVars)

SpecArray == InitArray /\ [][NextArray]_vars

\* The concatenation of two arrays along an axis: vectors are joined end to
\* end, matrices by rows along axis 0 and by columns along axis 1.
Concatenate(x, y, axis) ==
    IF x.ndim = 1 /\ y.ndim = 1 THEN JoinEnds(x, y)
    ELSE IF axis = 0 THEN JoinRows(atleast_2d(x), atleast_2d(y))
    ELSE JoinCols(x, y)

\* The concatenation of the chunks 1..k of a sequence, in order.
RECURSIVE ConcatenateAll(_, _, _)
ConcatenateAll(chunks, k, axis) ==
    IF k = 1 THEN chunks[1]
    ELSE Concatenate(ConcatenateAll(chunks, k - 1, axis), chunks[k], axis)

\* The values an array holds.
Values(x) == {x.m[i][j] : i \in 1..NumRows(x), j \in 1..NumCols(x)}

\* The chunks taken so far, each vector taken as a matrix of one row.
StackedAsRows == [i \in 1..Len(stacked) |-> atleast_2d(stacked[i])]

\* The array was empty, by construction or by clear(), before the chunks of
\* stacked were given to it.
StackedFromEmpty == initial_data = NoArray /\ stacked # <<>>

InitBlock ==
    /\ \E r \in 0..(RngPeriod - 1) : DesignInit(<<>>, <<>>, r)
    /\ CounterUnused
    /\ StreamIdle
    /\ BufferUnused
    /\ SleeperUnused
    /\ ArrayUnused
    /\ TimerUnused
    /\ TwinUnused
    /\ AccessorsUnused
    /\ KeyboardUnused

NextBlock ==
    \/ (AddBlock /\ UNCHANGED notBlockVars)
    \/ (AddTrial /\ UNCHANGED notBlockVars)
    \/ (Shuffle /\ UNCHANGED notBlockVars)

SpecBlock == InitBlock /\ [][NextBlock]_vars

\* C22: add_trial(attrs) appends the trial it returns to the block, and the
\* trial's attrs are the caller's attributes with block set to the block's
\* index and trial set to the number of trials the block held before, values
\* the caller gave for block and trial being overwritten.
C22_AddTrialSetsBlockAndTrial ==
    blockOp = "add_trial" =>
        LET blk == design[lastAdd.blk]
            last == blk.trials[Len(blk.trials)]
            attrs == dicts[last.attrs]
        IN /\ last = lastAdd.trial
           /\ attrs.target = lastAdd.given.target
           /\ attrs.block = lastAdd.blk - 1
           /\ attrs.block = blk.index
           /\ attrs.trial = Len(blk.trials) - 1

\* C22's case: the second trial of the first block, added with a target and
\* with values of the caller's for block and trial.
C22_Witness ==
    /\ blockOp = "add_trial"
    /\ lastAdd.blk = 1
    /\ lastAdd.given = [target |-> 3, block |-> 7, trial |-> 7]
    /\ Len(design[1].trials) = 2
    /\ dicts[design[1].trials[2].attrs] = [target |-> 3, block |-> 0, trial |-> 1]

\* C23: after any add_trial calls and shuffle(reset_index=true) calls on a
\* block, the trial at every position i of the block has attrs trial = i
\* and block = the block's index, whatever dictionaries the caller passed,
\* one dictionary passed to several add_trial calls included.
C23_TrialsCarryTheirPosition ==
    \A b \in (1..Len(design)) \ everPlain :
        \A i \in 1..Len(design[b].trials) :
            /\ dicts[design[b].trials[i].attrs].trial = i - 1
            /\ dicts[design[b].trials[i].attrs].block = design[b].index

(***************************************************************************)
(* Two structurally identical blocks under every sequence of shuffle()     *)
(* calls and other uses of the random generator.                           *)
(***************************************************************************)

\* A block of n trials built by add_trial() calls without attributes, its
\* dictionaries being the objects first + 1 .. first + n.
BuiltBlock(index, n, first) ==
    [index |-> index, trials |-> [i \in 1..n |-> Trial(i - 1, first + i)]]

\* The dictionaries of two such blocks, of indices 0 and 1.
BuiltDicts(n) ==
    [k \in 1..(2 * n) |->
        IF k <= n THEN update(EmptyDict, 0, k - 1) ELSE update(EmptyDict, 1, k - n - 1)]

InitShuffle ==
    /\ \E n \in 0..MaxTrials, r \in 0..(RngPeriod - 1) :
        DesignInit(<<BuiltBlock(0, n, 0), BuiltBlock(1, n, n)>>, BuiltDicts(n), r)
    /\ CounterUnused
    /\ StreamIdle
    /\ BufferUnused
    /\ SleeperUnused
    /\ ArrayUnused
    /\ TimerUnused
    /\ TwinUnused
    /\ AccessorsUnused
    /\ KeyboardUnused

NextShuffle ==
    \/ (Shuffle /\ UNCHANGED notBlockVars)
    \/ (RandomUse /\ UNCHANGED notBlockVars)

SpecShuffle == InitShuffle /\ [][NextShuffle]_vars

\* The ordering of a list of trials: for each position, which trial of the
\* block, by creation, stands there.
Ordering(trials) == [k \in 1..Len(trials) |-> trials[k].made]

\* C24: two shuffle calls with the same seed on blocks with the same ordering
\* leave the same ordering, whatever the state of the random generator was
\* before each call.
C24_SeededShuffleDeterministic ==
    \A i, j \in 1..Len(shuffleLog) :
        (/\ shuffleLog[i].seed # None
         /\ shuffleLog[i].seed = shuffleLog[j].seed
         /\ Ordering(shuffleLog[i].before) = Ordering(shuffleLog[j].before))
            => Ordering(shuffleLog[i].after) = Ordering(shuffleLog[j].after)

\* C24's case: the two blocks, of three trials each, shuffled with the same
\* seed from different states of the generator, into an ordering other than
\* the one they had.
C24_Witness ==
    /\ Len(shuffleLog) = 2
    /\ shuffleLog[1].blk # shuffleLog[2].blk
    /\ shuffleLog[1].seed # None
    /\ shuffleLog[1].seed = shuffleLog[2].seed
    /\ shuffleLog[1].rng # shuffleLog[2].rng
    /\ Len(shuffleLog[1].before) = 3
    /\ Ordering(shuffleLog[1].before) = Ordering(shuffleLog[2].before)
    /\ Ordering(shuffleLog[1].after) # Ordering(shuffleLog[1].before)
    /\ Ordering(design[1].trials) = Ordering(design[2].trials)

(***************************************************************************)
(* Timer under every schedule of start() and stop() calls and ticks.       *)
(***************************************************************************)

InitTimer ==
    /\ \E dur \in 1..MaxDuration : TimerInit(dur)
    /\ CounterUnused
    /\ StreamIdle
    /\ BufferUnused
    /\ SleeperUnused
    /\ ArrayUnused
    /\ DesignUnused
    /\ TwinUnused
    /\ AccessorsUnused
    /\ KeyboardUnused

NextTimer ==
    \/ (TimerStart /\ UNCHANGED notTimerVars)
    \/ (TimerStop /\ UNCHANGED notTimerVars)
    \/ (TimerTick /\ UNCHANGED notTimerVars)

SpecTimer == InitTimer /\ [][NextTimer]_vars

\* C25: once the duration has passed since the last start() with no stop()
\* before its end, exactly one timeout has been emitted for that start(),
\* however long ago the duration ended; after a stop() before the end of the
\* duration none has been emitted for that start(); and no start() has more
\* than one timeout.
C25_OneShotAndCancellable ==
    /\ fired <= 1
    /\ totalFired <= starts
    /\ (starts > 0 /\ ~stoppedEarly /\ elapsed >= duration) => fired = 1
    /\ (starts > 0 /\ elapsed < duration) => fired = 0
    /\ stoppedEarly => fired = 0

\* C25's case: a first start() was stopped before its duration had passed,
\* a second start() ran to the end of the duration, and as much time again
\* has passed since.
C25_Witness ==
    /\ starts = 2
    /\ totalFired = 1
    /\ fired = 1
    /\ ~stoppedEarly
    /\ ~qActive
    /\ elapsed >= 2 * duration

(***************************************************************************)
(* Further properties of Counter and StepCounter, checked under SpecTiming. *)
(***************************************************************************)

\* C26: in every reachable state of every Counter, progress is at least 0 and
\* less than 1.
C26_ProgressBelowOne ==
    /\ 0 <= progress(count, max_count).num
    /\ progress(count, max_count).num < progress(count, max_count).den

\* C27: reset(), on a Counter and on a StepCounter, in any state, leaves the
\* count at 0, emits no timeout and no step event, and leaves max_count,
\* reset_on_timeout and the registered steps as they were.
C27_ResetOnlyClearsCount ==
    [][(lastOp' = "reset" /\ calls' = calls + 1) =>
        /\ count' = 0
        /\ emitted' = <<>>
        /\ UNCHANGED <<kind, max_count, reset_on_timeout, step_count, step_inc>>
      ]_vars

\* C27's case: a reset() of a StepCounter with two steps registered, built
\* not to reset on timeout, after three earlier calls.
C27_Witness ==
    /\ lastOp = "reset"
    /\ kind = "StepCounter"
    /\ ~reset_on_timeout
    /\ Len(step_count) = 2
    /\ step_inc = 2
    /\ calls = 4
    /\ count = 0
    /\ emitted = <<>>

(***************************************************************************)
(* A StepCounter and a Counter given the same calls.                       *)
(***************************************************************************)

InitTwin ==
    /\ CounterInit
    /\ kind = "StepCounter"
    /\ TwinInit
    /\ StreamIdle
    /\ BufferUnused
    /\ SleeperUnused
    /\ ArrayUnused
    /\ DesignUnused
    /\ TimerUnused
    /\ AccessorsUnused
    /\ KeyboardUnused

NextTwin ==
    \/ (BothIncrement /\ UNCHANGED notTwinVars)
    \/ (BothReset /\ UNCHANGED notTwinVars)
    \/ (StepCounterAddStep /\ UNCHANGED notTwinVars)

SpecTwin == InitTwin /\ [][NextTwin]_vars

\* C28: a StepCounter, whatever steps are registered on it, and a Counter
\* built with the same max_count and reset_on_timeout and given the same
\* increment() and reset() calls have equal counts after every call, and
\* each call emits timeout on the one exactly when it does on the other.
C28_StepCounterTimesOutAsCounter ==
    /\ count = twinCount
    /\ lastOp \in {"increment", "reset"} => Timeouts = twinEmitted

\* C28's case: after a reset(), an increment() on which the StepCounter fired
\* a step registered at max_count and then the timeout, as the Counter did.
C28_Witness ==
    /\ lastOp = "increment"
    /\ calls > nInc
    /\ max_count > 1
    /\ Len(Steps) >= 1
    /\ Len(Timeouts) = 1
    /\ twinEmitted = Timeouts
    /\ count = twinCount

(***************************************************************************)
(* Further properties of DaqStream, checked under SpecStream.              *)
(***************************************************************************)

\* C29: when read() raises an error that is not the disconnection error, the
\* run ends there: it emits neither disconnected nor finished, emits no
\* updated event after the error, and does not call the device's stop().
C29_OtherErrorEndsRunSilently ==
    ReadRaised =>
        /\ wpc = "done"
        /\ log[Len(log)] = Entry("device.read raised", 0)
        /\ Count("disconnected") = 0
        /\ Count("finished") = 0
        /\ Count("device.stop") = 0

\* C29's case: the third read raised, after two updated events.
C29_Witness ==
    /\ ReadRaised
    /\ wpc = "done"
    /\ reads = 2
    /\ Events = <<Entry("updated", 1), Entry("updated", 2)>>

\* The name the accessor last called reads on the device.
QueriedName ==
    IF lastQuery = "get_device_details" THEN "DEVICE_DETAILS"
    ELSE IF lastQuery = "get_sample_properties" THEN "get_sample_properties"
    ELSE "CHANNELS"

\* C30: an accessor called on a stream whose device lacks the attribute or
\* method it reads never fails: it returns a placeholder.
C30_AccessorsNeverFail ==
    (lastQuery # "none" /\ QueriedName \notin devAttrs) =>
        queryResult = "placeholder"


(***************************************************************************)
(* Further properties of Array, checked under SpecArray.                   *)
(***************************************************************************)

\* The shape of an array: its length for a vector, rows and columns for a
\* matrix.
Shape(x) == IF x.ndim = 1 THEN <<NumCols(x)>> ELSE <<NumRows(x), NumCols(x)>>

\* The chunk cannot be stacked onto the held array along the axis: along
\* axis 0 their widths differ; along axis 1 one is a vector and the other a
\* matrix, or they are matrices of different heights.
ShapeIncompatible(held, chunk, axis) ==
    IF axis = 0
    THEN Shape(held)[Len(Shape(held))] # Shape(chunk)[Len(Shape(chunk))]
    ELSE \/ Len(Shape(held)) # Len(Shape(chunk))
         \/ (Len(Shape(held)) = 2 /\ Shape(held)[1] # Shape(chunk)[1])

C32_BlocksIndexedByPosition ==
    /\ \A i \in 1..Len(design) : design[i].index = i - 1
    /\ blockOp = "add_block" =>
        /\ returnedBlock = Len(design)
        /\ design[returnedBlock].trials = <<>>
        /\ design[returnedBlock].index = Len(design) - 1

\* C32's case: the second add_block(), made after a trial was added to the
\* first block.
C32_Witness ==
    /\ blockOp = "add_block"
    /\ Len(design) = 2
    /\ returnedBlock = 2
    /\ design[2].index = 1
    /\ Len(design[1].trials) >= 1


(***************************************************************************)
(* Further properties of DaqStream, checked under SpecStream.              *)
(***************************************************************************)

\* C33: every updated event carries the chunk of the successful read just
\* before it, so that the chunks are emitted in read order and each at most
\* once; and while no stop() has been requested every successful read is
\* followed by the updated event of its chunk before the next read begins.
C33_UpdatedInReadOrder ==
    /\ \A i \in 1..Len(log) :
        log[i].what = "updated" =>
            /\ i > 1
            /\ log[i - 1] = Entry("device.read", log[i].chunk)
    /\ \A i, j \in 1..Len(log) :
        (i < j /\ log[i].what = "updated" /\ log[j].what = "updated") =>
            log[i].chunk < log[j].chunk
    /\ ~stopRequested =>
        \A i \in 1..Len(log) :
            log[i].what = "device.read" =>
                IF i < Len(log)
                THEN log[i + 1] = Entry("updated", log[i].chunk)
                ELSE wpc \in {"l102", "l103"}

\* C33's case: three reads, each followed by its updated event, with no
\* stop() requested.
C33_Witness ==
    /\ ~stopRequested
    /\ reads = 3
    /\ log = <<Entry("device.start", 0),
               Entry("device.read", 1), Entry("updated", 1),
               Entry("device.read", 2), Entry("updated", 2),
               Entry("device.read", 3), Entry("updated", 3)>>


(***************************************************************************)
(* Further properties of StepCounter, checked under SpecTiming.            *)
(***************************************************************************)

\* The steps registered at checkpoint cp, by position in step_count.
StepsAt(cp) == {i \in 1..Len(step_count) : step_count[i] = cp}

\* C34: on the increment() that takes the count of a StepCounter to
\* max_count, with a step registered at max_count, the events of the steps
\* at max_count are emitted first and the timeout event last; the step
\* handlers observe count = max_count, and with reset_on_timeout the timeout
\* handler observes count = 0.
C34_StepBeforeTimeoutAtMaxCount ==
    [][(/\ kind = "StepCounter"
        /\ calls' = calls + 1
        /\ lastOp' = "increment"
        /\ count + 1 = max_count
        /\ StepsAt(max_count) # {}) =>
        LET e == emitted' IN
        /\ Len(e) = Cardinality(StepsAt(max_count)) + 1
        /\ \A k \in 1..(Len(e) - 1) :
            /\ IsStep(e[k])
            /\ (e[k].id + 1) \in StepsAt(max_count)
            /\ e[k].seen = max_count
        /\ IsTimeout(e[Len(e)])
        /\ reset_on_timeout => (e[Len(e)].seen = 0 /\ count' = 0)
        /\ ~reset_on_timeout => (e[Len(e)].seen = max_count /\ count' = max_count)
      ]_vars

\* C34's case: StepCounter(3) with steps at 3 and at 1, after its third
\* increment: the step at 3 fired seeing 3, then the timeout seeing 0.
C34_Witness ==
    /\ kind = "StepCounter"
    /\ reset_on_timeout
    /\ max_count = 3
    /\ step_count = <<3, 1>>
    /\ lastOp = "increment"
    /\ nInc = 3
    /\ count = 0
    /\ emitted = <<Event("step", 0, 3), Event("timeout", 0, 0)>>

\* The events of step i (by position in step_count) among the events es.
FiredBy(es, i) == {k \in 1..Len(es) : IsStep(es[k]) /\ es[k].id = i - 1}

\* C35: with reset_on_timeout set and no reset() call so far, the n-th
\* increment() fires a step registered at checkpoint c once when
\* 1 <= c <= max_count and n is c modulo max_count, and not at all otherwise:
\* once in every max_count increments for such a c, never for c = 0 and
\* never for c > max_count.
C35_StepOncePerCycle ==
    [][(/\ kind = "StepCounter"
        /\ reset_on_timeout
        /\ calls = nInc
        /\ calls' = calls + 1
        /\ lastOp' = "increment") =>
        \A i \in 1..Len(step_count) :
            Cardinality(FiredBy(emitted', i)) =
                IF /\ 1 <= step_count[i]
                   /\ step_count[i] <= max_count
                   /\ nInc' % max_count = step_count[i] % max_count
                THEN 1 ELSE 0
      ]_vars

\* C35's case: StepCounter(2) with steps at 0, 2 and 3, after its fourth
\* increment with no reset(): the step at 2 fired for the second time, the
\* others never.
C35_Witness ==
    /\ kind = "StepCounter"
    /\ reset_on_timeout
    /\ max_count = 2
    /\ step_count = <<0, 2, 3>>
    /\ lastOp = "increment"
    /\ nInc = 4
    /\ calls = 4
    /\ Steps = <<Event("step", 1, 2)>>

(***************************************************************************)
(* timing.py: a StepCounter whose owner registers steps until the emitters *)
(* run out, and goes on.                                                   *)
(***************************************************************************)
InitSteps ==
    /\ InitTiming
    /\ kind = "StepCounter"
    /\ max_count \in FewCheckpoints

NextSteps ==
    \/ (AddStepToTheLimit /\ UNCHANGED notTimingVars)
    \/ (StepCounterIncrement /\ UNCHANGED notTimingVars)
    \/ (Reset /\ UNCHANGED notTimingVars)

SpecSteps == InitSteps /\ [][NextSteps]_vars

\* The steps whose checkpoint equals the count c, in registration order.
FiringAt(c) ==
    SelectSeq([i \in 1..Len(step_count) |-> Event("step", i - 1, c)],
              LAMBDA e : step_count[e.id + 1] = c)

\* C36: a StepCounter has step_max = 10 step emitters.  An add_step() call
\* made when ten steps are registered registers nothing and raises nothing:
\* the steps, the count and step_inc stay as they were, and no event of the
\* StepCounter ever carries an eleventh emitter; the ten registered steps go
\* on firing at their checkpoints on the increments that follow.
C36_EleventhStepIgnored ==
    [][/\ (lastOp' = "add_step" /\ step_inc = step_max) =>
            /\ nRefused' = nRefused + 1
            /\ emitted' = <<>>
            /\ UNCHANGED <<step_count, step_inc, count, kind, max_count,
                           reset_on_timeout>>
       /\ step_inc' <= step_max /\ Len(step_count') = step_inc'
       /\ (nRefused >= 1 /\ lastOp' = "increment" /\ calls' = calls + 1) =>
            /\ Len(step_count') = step_max
            /\ SelectSeq(emitted', IsStep) = FiringAt(count + 1)
            /\ \A k \in 1..Len(emitted') : IsStep(emitted'[k]) => emitted'[k].id < step_max
      ]_vars

\* C36's case: after ten steps were registered and one more add_step() call
\* was made, an increment fires the seven steps registered at checkpoint 2.
C36_Witness ==
    /\ nRefused = 1 /\ step_inc = step_max /\ lastOp = "increment" /\ count = 2
    /\ max_count = 2 /\ ~reset_on_timeout
    /\ step_count = <<1, 2, 2, 1, 2, 2, 1, 2, 2, 2>>
    /\ Len(SelectSeq(emitted, IsStep)) = 7

\* C37: on a Counter or StepCounter built with reset_on_timeout false, an
\* increment never resets the count: it adds one to it, and it emits timeout
\* exactly when the count becomes max_count.  The count then grows beyond
\* max_count without a timeout, so that between two reset() calls at most
\* one timeout is emitted.
C37_NoResetTimesOutOnce ==
    [][(/\ ~reset_on_timeout /\ lastOp' = "increment" /\ calls' = calls + 1) =>
        /\ count' = count + 1
        /\ count' = nInc'
        /\ (\E k \in 1..Len(emitted') : IsTimeout(emitted'[k])) <=> count' = max_count
        /\ Cardinality({k \in 1..Len(emitted') : IsTimeout(emitted'[k])}) <= 1
        /\ nTimeout' = IF count' >= max_count THEN 1 ELSE 0
      ]_vars

\* C37's case: a counter to 1 that times out, is incremented beyond 1, is
\* reset, times out again and is incremented to 2 without a timeout.
C37_Witness ==
    /\ ~reset_on_timeout /\ max_count = 1 /\ calls = 5 /\ nInc = 2 /\ count = 2
    /\ nTimeout = 1 /\ lastOp = "increment"
    /\ \A k \in 1..Len(emitted) : ~IsTimeout(emitted[k])

\* The extent of a chunk along the insert axis, as the claim states it.
Extent(c) == IF c.ndim = 1 THEN 1 ELSE Len(c.samples)

\* C38: an insert into a BufferedArray that has not overflowed, of a chunk
\* with pos + extent = capacity, writes the whole chunk at pos, leaves
\* pos = capacity and overflow false; overflow is set only by an insert of
\* positive extent with pos + extent > capacity, so never by a chunk of
\* extent 0 offered to a full buffer; and a 1-dimensional chunk counts as
\* extent 1: it advances pos by one, or overflows when pos = capacity.
C38_ExactFillIsNotOverflow ==
    [][ /\ (InsertStep /\ ~overflow /\ pos + Extent(lastChunk') = capacity) =>
            /\ pos' = capacity
            /\ ~overflow'
            /\ SubSeq(buffer', pos + 1, capacity) = lastChunk'.samples
            /\ SubSeq(buffer', 1, pos) = SubSeq(buffer, 1, pos)
        /\ (~overflow /\ overflow') =>
            /\ InsertStep
            /\ Extent(lastChunk') > 0
            /\ pos + Extent(lastChunk') > capacity
        /\ (InsertStep /\ ~overflow /\ lastChunk'.ndim = 1) =>
            IF pos < capacity THEN pos' = pos + 1 /\ ~overflow'
            ELSE pos' = pos /\ overflow'
      ]_vars

\* C38's case: a buffer of capacity 3 holding one sample was filled exactly
\* by a chunk of two samples, and is full and not overflowed.
C38_Witness ==
    /\ capacity = 3 /\ pos = 3 /\ ~overflow /\ bufOp = "insert"
    /\ lastChunk.ndim = 2 /\ Len(lastChunk.samples) = 2
    /\ SubSeq(buffer, 2, 3) = lastChunk.samples

\* The trials of a list, as a set.
TrialsOf(trials) == {trials[k] : k \in 1..Len(trials)}

\* C39: a shuffle() call permutes its block in place: the block holds the
\* same trial objects before and after, each once, the other blocks and the
\* block's index are as they were, no dictionary's block or caller-supplied
\* attribute changes, and with reset_index false no dictionary changes at
\* all, the trial attributes included.
C39_ShuffleIsPermutationInPlace ==
    [][(blockOp' = "shuffle" /\ blockOps' = blockOps + 1) =>
        LET call == shuffleLog'[Len(shuffleLog')]
            b == call.blk
        IN /\ Len(design') = Len(design)
           /\ \A c \in 1..Len(design) :
                /\ design'[c].index = design[c].index
                /\ c # b => design'[c] = design[c]
           /\ Len(design'[b].trials) = Len(design[b].trials)
           /\ TrialsOf(design'[b].trials) = TrialsOf(design[b].trials)
           /\ Cardinality(TrialsOf(design'[b].trials)) = Len(design'[b].trials)
           /\ Len(dicts') = Len(dicts)
           /\ \A k \in 1..Len(dicts) :
                /\ dicts'[k].block = dicts[k].block
                /\ dicts'[k].target = dicts[k].target
           /\ ~call.reset_index => dicts' = dicts
      ]_vars

\* C39's case: a block of two trials with a caller-supplied attribute was
\* shuffled with reset_index false into the other order, so that the trial
\* attributes no longer follow the positions.
C39_Witness ==
    /\ blockOp = "shuffle" /\ Len(shuffleLog) >= 1
    /\ LET call == shuffleLog[Len(shuffleLog)]
       IN /\ ~call.reset_index
          /\ Len(call.before) = 2
          /\ call.after # call.before
          /\ design[call.blk].trials = call.after
          /\ \A k \in 1..2 : dicts[call.after[k].attrs].target = 3
          /\ \A k \in 1..2 : dicts[call.after[k].attrs].trial # k - 1

(***************************************************************************)
(* daq.py: a started Keyboard read by the worker of a DaqStream while the  *)
(* application delivers events to its filter.                              *)
(***************************************************************************)
InitKeyboard ==
    /\ KeyboardInit
    /\ CounterUnused
    /\ StreamIdle
    /\ BufferUnused
    /\ SleeperUnused
    /\ ArrayUnused
    /\ DesignUnused
    /\ TimerUnused
    /\ TwinUnused
    /\ AccessorsUnused

NextKeyboard ==
    \/ (ReadSleep /\ UNCHANGED notKeyboardVars)
    \/ (ReadCopy /\ UNCHANGED notKeyboardVars)
    \/ (ReadClear /\ UNCHANGED notKeyboardVars)
    \/ (EventFilter /\ UNCHANGED notKeyboardVars)

SpecKeyboard == InitKeyboard /\ [][NextKeyboard]_vars

\* C40: every press of a watched key that eventFilter recorded is reported
\* as 1 by exactly one read(): never by two, and by one once the 1 it wrote
\* has left self._data, under every interleaving of eventFilter with the
\* statements of read().
C40_EveryPressReportedOnce ==
    \A i \in 1..Len(presses) :
        /\ presses[i].reports <= 1
        /\ ~presses[i].live => presses[i].reports = 1

====
